---- MODULE Spec2Model ----
(***************************************************************************)
(* A model of the recursive step engine of rlm-dspy: the root loop         *)
(* (runRLM / runInternal), the DSL interpreter (DSLRepl), the budget       *)
(* accounting (Budget.ts), the cached sub-RLM dispatcher (subRLM.ts) and   *)
(* the improvement loop (improve/index.ts, improve/longRun.ts).            *)
(*                                                                         *)
(* Strings are sequences of one-character strings.  Document characters    *)
(* are "X" and "Z" (letters that occur in no JSON framing of the runtime)  *)
(* and "NL" (a line feed).  "BS" is a backslash and "n" the letter n: they *)
(* appear when JSON.stringify escapes a line feed.  "k" and "f" are the    *)
(* characters of the values the language model writes, "W", "S" and "T"    *)
(* stand for the task phrases "one word", "sum" and "token".               *)
(***************************************************************************)
EXTENDS Integers, Sequences, FiniteSets, TLC

(***************************************************************************)
(* Bounds of the exploration.                                              *)
(***************************************************************************)
\* language-model replies explored in one root call (all depths together)
MaxLLMCalls == 3
\* largest reading of the clock (Date.now()), in ms after the root call began
MaxClock == 1
\* largest concurrency of a sub_map
MaxConcurrency == 2
\* times the same sub_map is executed on one environment
MaxRounds == 2
\* actions handed to one DSLRepl
MaxExecs == 3
\* candidates evaluated in one call of the improvement loop (all rounds together)
MaxEvaluations == 3
MaxSymbolCalls == 3

(***************************************************************************)
(* Program constants.                                                      *)
(***************************************************************************)
DefaultMaxSteps == 32
DefaultMaxSubCalls == 32
DefaultMaxDepth == 4
DefaultMaxPromptReadChars == 200000
DefaultMaxTimeMs == 30000
DefaultMetaPreviewChars == 200
DefaultMaxConsecutiveErrors == 2
\* value.slice(0, 200) in the stdout of slice_prompt, chunk_newlines, sub_map
StdoutPreviewChars == 200
\* number of characters of {"out":"w","length":2,"preview":" before the slice
SlicePrefixLen == 33
\* number of characters of {"out":"chunks","count":2,"firstChunkPreview":"
ChunkPrefixLen == 47
\* number of characters of {"out":"mapped","count":2,"firstItemPreview":"
SubMapPrefixLen == 46

\* an optional field: None when undefined, Some(x) otherwise
None == <<>>
Some(x) == <<x>>
\* opt ?? dflt
Or(opt, dflt) == IF opt # None THEN opt[1] ELSE dflt

Min(a, b) == IF a < b THEN a ELSE b
Max(a, b) == IF a > b THEN a ELSE b

(***************************************************************************)
(* Values held in scratch and in env.final.                                *)
(***************************************************************************)
Undef == [t |-> "undef", s |-> <<>>, a |-> <<>>]
Str(s) == [t |-> "str", s |-> s, a |-> <<>>]
Arr(a) == [t |-> "arr", s |-> <<>>, a |-> a]
Obj == [t |-> "obj", s |-> <<>>, a |-> <<>>]

RECURSIVE JoinWith(_, _)
\* parts.join(sep)
JoinWith(parts, sep) ==
  IF parts = <<>> THEN <<>>
  ELSE IF Len(parts) = 1 THEN parts[1]
  ELSE parts[1] \o sep \o JoinWith(Tail(parts), sep)

\* String(value): an array prints as its items joined by commas, an object
\* as the characters of [object Object] (none of them a document character)
ToStr(val) ==
  IF val.t = "str" THEN val.s
  ELSE IF val.t = "arr" THEN JoinWith(val.a, <<",">>)
  ELSE IF val.t = "obj" THEN <<"o">>
  ELSE <<"u">>

(***************************************************************************)
(* Text helpers.                                                           *)
(***************************************************************************)
RECURSIVE JsonEscape(_)
\* JSON.stringify of the characters of a string value
JsonEscape(s) ==
  IF s = <<>> THEN <<>>
  ELSE LET c == Head(s)
           e == IF c = "NL" THEN <<"BS", "n">>
                ELSE IF c = "BS" THEN <<"BS", "BS">>
                ELSE <<c>>
       IN e \o JsonEscape(Tail(s))

Slice(s, start, end) ==
  SubSeq(s, Min(start, Len(s)) + 1, Min(end, Len(s)))

\* s.includes(p)
Includes(s, p) ==
  \E i \in 1..(Len(s) - Len(p) + 1) : SubSeq(s, i, i + Len(p) - 1) = p

RECURSIVE SplitOn(_, _, _)
\* s.split(sep) for a one-character separator; cur is the piece being read
SplitOn(s, sep, cur) ==
  IF s = <<>> THEN <<cur>>
  ELSE IF Head(s) = sep THEN <<cur>> \o SplitOn(Tail(s), sep, <<>>)
  ELSE SplitOn(Tail(s), sep, Append(cur, Head(s)))

SplitLines(s) == SplitOn(s, "NL", <<>>)

RECURSIVE NonEmpty(_)
NonEmpty(parts) ==
  IF parts = <<>> THEN <<>>
  ELSE IF Head(parts) = <<>> THEN NonEmpty(Tail(parts))
  ELSE <<Head(parts)>> \o NonEmpty(Tail(parts))

RECURSIVE TrimLeft(_)
TrimLeft(s) ==
  IF s # <<>> /\ Head(s) = "NL" THEN TrimLeft(Tail(s)) ELSE s

RECURSIVE TrimRight(_)
TrimRight(s) ==
  IF s # <<>> /\ s[Len(s)] = "NL" THEN TrimRight(SubSeq(s, 1, Len(s) - 1)) ELSE s

Trim(s) == TrimRight(TrimLeft(s))

\* util/hash.ts: a digest of the input; distinct inputs of the model get
\* distinct digests and no digest shares characters with a document
hashString(input) == [sha |-> input]

(***************************************************************************)
(* trace/Trace.ts                                                          *)
(***************************************************************************)
\* A stdout string: pre framing characters followed by the characters of
\* one data-bearing JSON string value (already escaped), then framing.
Stdout(pre, text) == [pre |-> pre, text |-> text]

PlainStdout == Stdout(0, <<>>)

\* cut(value, maxChars) on a stdout string
cut(value, maxChars) ==
  IF maxChars <= 0 THEN Stdout(0, <<>>)
  ELSE Stdout(Min(value.pre, maxChars),
              SubSeq(value.text, 1, Min(Len(value.text), Max(0, maxChars - value.pre))))

\* makeStdoutMeta(stdout, scratch, maxChars).preview
makeStdoutMeta(stdout, maxChars) == cut(stdout, maxChars)

(***************************************************************************)
(* budget/Budget.ts                                                        *)
(***************************************************************************)
DEFAULT_BUDGET ==
  [maxSteps |-> DefaultMaxSteps, maxSubCalls |-> DefaultMaxSubCalls,
   maxDepth |-> DefaultMaxDepth, maxPromptReadChars |-> DefaultMaxPromptReadChars,
   maxTimeMs |-> DefaultMaxTimeMs, stepsUsed |-> 0, subCallsUsed |-> 0,
   depth |-> 0, promptReadCharsUsed |-> 0]

\* a Partial<BudgetState> of limits: every field None or Some(n)
NoOverride ==
  [maxSteps |-> None, maxSubCalls |-> None, maxDepth |-> None,
   maxPromptReadChars |-> None, maxTimeMs |-> None, startedAt |-> None]

\* the later spread wins when it defines the field
Pick(a, b) == IF a # None THEN a ELSE b

\* { ...a, ...b } on two partial budgets
Spread(a, b) ==
  [maxSteps |-> Pick(b.maxSteps, a.maxSteps),
   maxSubCalls |-> Pick(b.maxSubCalls, a.maxSubCalls),
   maxDepth |-> Pick(b.maxDepth, a.maxDepth),
   maxPromptReadChars |-> Pick(b.maxPromptReadChars, a.maxPromptReadChars),
   maxTimeMs |-> Pick(b.maxTimeMs, a.maxTimeMs),
   startedAt |-> Pick(b.startedAt, a.startedAt)]

defaultBudget(override, clock) ==
  [maxSteps |-> Or(override.maxSteps, DEFAULT_BUDGET.maxSteps),
   maxSubCalls |-> Or(override.maxSubCalls, DEFAULT_BUDGET.maxSubCalls),
   maxDepth |-> Or(override.maxDepth, DEFAULT_BUDGET.maxDepth),
   maxPromptReadChars |-> Or(override.maxPromptReadChars, DEFAULT_BUDGET.maxPromptReadChars),
   maxTimeMs |-> Or(override.maxTimeMs, DEFAULT_BUDGET.maxTimeMs),
   stepsUsed |-> DEFAULT_BUDGET.stepsUsed,
   subCallsUsed |-> DEFAULT_BUDGET.subCallsUsed,
   depth |-> DEFAULT_BUDGET.depth,
   promptReadCharsUsed |-> DEFAULT_BUDGET.promptReadCharsUsed,
   startedAt |-> Or(override.startedAt, clock)]

\* the outcome of a budget operation: err is "ok" or the BudgetExceeded kind
Charged(err, budget) == [err |-> err, budget |-> budget]

\* ensureTimeBudget throws
timeExceeded(budget, clock) == clock - budget.startedAt > budget.maxTimeMs

\* consumeRootStep comparing stepsUsed, not stepsUsed + 1, with the limit
consumeRootStepLate(budget, clock) ==
  IF timeExceeded(budget, clock) THEN Charged("maxTimeMs", budget)
  ELSE IF budget.stepsUsed > budget.maxSteps THEN Charged("maxSteps", budget)
  ELSE Charged("ok", [budget EXCEPT !.stepsUsed = @ + 1])

\* consumeRootStep without the step limit
consumeRootStepUnlimited(budget, clock) ==
  IF timeExceeded(budget, clock) THEN Charged("maxTimeMs", budget)
  ELSE Charged("ok", budget)

consumeRootStep(budget, clock) ==
  IF timeExceeded(budget, clock) THEN Charged("maxTimeMs", budget)
  ELSE IF budget.stepsUsed + 1 > budget.maxSteps THEN Charged("maxSteps", budget)
  ELSE Charged("ok", [budget EXCEPT !.stepsUsed = @ + 1])

\* a consumeSubCall that does not call ensureTimeBudget
consumeSubCallUntimed(budget, clock) ==
  IF budget.subCallsUsed + 1 > budget.maxSubCalls THEN Charged("maxSubCalls", budget)
  ELSE Charged("ok", [budget EXCEPT !.subCallsUsed = @ + 1])

consumeSubCall(budget, clock) ==
  IF timeExceeded(budget, clock) THEN Charged("maxTimeMs", budget)
  ELSE IF budget.subCallsUsed + 1 > budget.maxSubCalls THEN Charged("maxSubCalls", budget)
  ELSE Charged("ok", [budget EXCEPT !.subCallsUsed = @ + 1])

\* ensureNextDepth comparing depth, not depth + 1, with the limit
ensureNextDepthLate(budget) ==
  IF budget.depth > budget.maxDepth THEN Charged("maxDepth", budget)
  ELSE Charged("ok", budget)

ensureNextDepth(budget) ==
  IF budget.depth + 1 > budget.maxDepth THEN Charged("maxDepth", budget)
  ELSE Charged("ok", budget)

\* a consumePromptChars that adds the chars before it compares with the limit
consumePromptCharsEager(budget, chars, clock) ==
  IF chars <= 0 THEN Charged("ok", budget)
  ELSE IF timeExceeded(budget, clock) THEN Charged("maxTimeMs", budget)
  ELSE IF budget.promptReadCharsUsed + chars > budget.maxPromptReadChars
       THEN Charged("maxPromptReadChars",
                    [budget EXCEPT !.promptReadCharsUsed = @ + chars])
  ELSE Charged("ok", [budget EXCEPT !.promptReadCharsUsed = @ + chars])

consumePromptChars(budget, chars, clock) ==
  IF chars <= 0 THEN Charged("ok", budget)
  ELSE IF timeExceeded(budget, clock) THEN Charged("maxTimeMs", budget)
  ELSE IF budget.promptReadCharsUsed + chars > budget.maxPromptReadChars
       THEN Charged("maxPromptReadChars", budget)
  ELSE Charged("ok", [budget EXCEPT !.promptReadCharsUsed = @ + chars])

(***************************************************************************)
(* rlm/RLM.ts: heuristics on the raw prompt and on scratch.                *)
(***************************************************************************)
\* /token|値/i.test(task), /合計|sum/i.test(task), /単語.*一つ|one word/i.test(task)
TaskHasToken(task) == \E i \in 1..Len(task) : task[i] = "T"
TaskHasSum(task) == \E i \in 1..Len(task) : task[i] = "S"
TaskHasWord(task) == \E i \in 1..Len(task) : task[i] = "W"

\* extractTokenValue: no document of the model holds a TOKEN=... line
extractTokenValue(prompt) == None

\* sumCsvColumn(prompt, 1, ','): no line of a document of the model has a
\* second comma-separated cell, so no cell is used
sumCsvColumn(prompt) == None

\* pickWord(prompt, index): the words are the runs of letters between line feeds
pickWord(prompt, index) ==
  LET words == NonEmpty(SplitLines(prompt))
  IN IF words = <<>> THEN None
     ELSE Some(words[Max(0, Min(index, Len(words) - 1)) + 1])

heuristicSolveByTask(prompt, task) ==
  IF task = None THEN None
  ELSE IF TaskHasToken(task[1]) THEN extractTokenValue(prompt)
  ELSE IF TaskHasSum(task[1]) THEN sumCsvColumn(prompt)
  ELSE IF TaskHasWord(task[1]) THEN pickWord(prompt, 1)
  ELSE None

postprocessFinal(final, prompt, task, enabled) ==
  IF ~enabled \/ task = None THEN final
  ELSE IF TaskHasToken(task[1]) /\ extractTokenValue(prompt) # None
       THEN extractTokenValue(prompt)[1]
  ELSE IF TaskHasSum(task[1]) /\ sumCsvColumn(prompt) # None
       THEN sumCsvColumn(prompt)[1]
  ELSE IF TaskHasWord(task[1]) /\ pickWord(prompt, 1) # None
       THEN pickWord(prompt, 1)[1]
  ELSE final

\* the scratch keys consulted by the early stop, in the order the task selects
orderedKeys(task) ==
  LET t == Or(task, <<>>)
  IN IF TaskHasSum(t) THEN <<"total", "sum", "answer", "result", "joined", "picked">>
     ELSE IF TaskHasWord(t) THEN <<"picked", "answer", "result", "joined", "total">>
     ELSE <<"answer", "result", "total", "picked", "joined">>

\* scratch[key], undefined when the key is not set
Get(scratch, key) == IF key \in DOMAIN scratch THEN scratch[key] ELSE Undef

Put(scratch, key, val) ==
  [k \in DOMAIN scratch \cup {key} |-> IF k = key THEN val ELSE scratch[k]]

RECURSIVE FirstHint(_, _)
\* the first key of keys whose scratch value is a string that trims non-empty
FirstHint(scratch, keys) ==
  IF keys = <<>> THEN None
  ELSE LET raw == Get(scratch, Head(keys))
       IN IF raw.t = "str" /\ Trim(raw.s) # <<>> THEN Some(Trim(raw.s))
          ELSE FirstHint(scratch, Tail(keys))

\* an early stop that consults the hint keys from the last to the first
maybeAutoFinalizeLastKey(env, o) ==
  IF ~o.enableEarlyStopHeuristic THEN None
  ELSE IF o.requirePromptReadBeforeFinalize /\ env.budget.promptReadCharsUsed <= 0 THEN None
  ELSE LET keys == orderedKeys(env.task)
           hint == FirstHint(env.scratch,
                             [j \in 1..Len(keys) |-> keys[Len(keys) + 1 - j]])
       IN IF hint = None THEN None
          ELSE Some(postprocessFinal(hint[1], env.prompt, env.task,
                                     o.enableHeuristicPostprocess))

maybeAutoFinalizeFromScratch(env, o) ==
  IF ~o.enableEarlyStopHeuristic THEN None
  ELSE IF o.requirePromptReadBeforeFinalize /\ env.budget.promptReadCharsUsed <= 0 THEN None
  ELSE LET hint == FirstHint(env.scratch, orderedKeys(env.task))
       IN IF hint = None THEN None
          ELSE Some(postprocessFinal(hint[1], env.prompt, env.task,
                                     o.enableHeuristicPostprocess))

(***************************************************************************)
(* rlm/RLM.ts: coerceDSL.  A reply of the language model is a record of    *)
(* optional fields (json = FALSE: the text holds no JSON object).          *)
(***************************************************************************)
Reply(op) ==
  [json |-> TRUE, op |-> op, path |-> None, key |-> None, value |-> Undef,
   from |-> None, start |-> None, end |-> None, out |-> None, in |-> None,
   queryTemplate |-> None, limit |-> None, maxLines |-> None]

KnownOps ==
  {"prompt_meta", "doc_parse", "doc_select_section", "doc_table_sum",
   "doc_select_rows", "doc_project_columns", "slice_prompt", "find",
   "chunk_newlines", "sum_csv_column", "pick_word", "sub_map", "reduce_join",
   "set", "finalize"}

\* the actions whose execution the model follows
ModelledOps == {"prompt_meta", "slice_prompt", "chunk_newlines", "sub_map", "set", "finalize"}

NoDsl ==
  [op |-> "", path |-> <<>>, value |-> Undef, from |-> <<>>, start |-> 0, end |-> 0,
   out |-> "", in |-> "", queryTemplate |-> <<>>, limit |-> None, maxLines |-> 0]

Coerced(dsl) == [ok |-> TRUE, err |-> "", dsl |-> dsl]
Rejected(msg) == [ok |-> FALSE, err |-> msg, dsl |-> NoDsl]

\* parseOneJSON followed by coerceDSL
coerceDSL(raw) ==
  IF ~raw.json THEN Rejected("No JSON object found in LLM output")
  ELSE IF raw.op = None THEN Rejected("op must be string")
  ELSE LET op == raw.op[1] IN
    CASE op = "prompt_meta" -> Coerced([NoDsl EXCEPT !.op = op])
      [] op = "slice_prompt" ->
           IF raw.start = None THEN Rejected("slice_prompt.start must be number")
           ELSE IF raw.end = None THEN Rejected("slice_prompt.end must be number")
           ELSE Coerced([NoDsl EXCEPT !.op = op, !.start = raw.start[1],
                                      !.end = raw.end[1],
                                      !.out = Or(raw.out, "chunk")])
      [] op = "chunk_newlines" ->
           Coerced([NoDsl EXCEPT !.op = op, !.maxLines = Or(raw.maxLines, 20),
                                 !.out = Or(raw.out, "chunks")])
      [] op = "sub_map" ->
           Coerced([NoDsl EXCEPT !.op = op, !.in = Or(raw.in, "chunks"),
                                 !.queryTemplate = Or(raw.queryTemplate, <<"{{item}}">>),
                                 !.out = Or(raw.out, "mapped"),
                                 !.limit = raw.limit])
      [] op = "set" ->
           Coerced([NoDsl EXCEPT !.op = op,
                                 !.path = IF raw.path # None THEN raw.path[1]
                                          ELSE <<"scratch", Or(raw.key, "answer")>>,
                                 !.value = IF raw.value.t = "undef" THEN Str(<<>>)
                                           ELSE raw.value])
      [] op = "finalize" ->
           Coerced([NoDsl EXCEPT !.op = op,
                                 !.from = IF raw.from # None THEN raw.from[1]
                                          ELSE IF raw.path # None THEN raw.path[1]
                                          ELSE <<Or(raw.key, "answer")>>])
      [] op \in KnownOps \ ModelledOps -> Coerced([NoDsl EXCEPT !.op = op])
      [] OTHER -> Rejected("unknown op")

(***************************************************************************)
(* repl/DSLRepl.ts                                                         *)
(***************************************************************************)
\* the outcome of one action on an environment.  err is "" on success,
\* "Error" for an ordinary throw and "BudgetExceeded" for a budget breach
\* (kind then names the budget)
Done(env, stdout) ==
  [env |-> env, err |-> "", kind |-> "", msg |-> "", stdout |-> stdout]
Thrown(env, msg) ==
  [env |-> env, err |-> "Error", kind |-> "", msg |-> msg, stdout |-> PlainStdout]
Breach(env, kind) ==
  [env |-> env, err |-> "BudgetExceeded", kind |-> kind, msg |-> "Budget exceeded",
   stdout |-> PlainStdout]

\* setByPath(env, path, value); a path is its '.'-separated segments
setByPath(env, path, value) ==
  IF path = <<"final">> THEN [env EXCEPT !.final = Str(ToStr(value))]
  ELSE LET segs == IF path # <<>> /\ path[1] = "scratch" THEN Tail(path) ELSE path
       IN IF Len(segs) = 1 THEN [env EXCEPT !.scratch = Put(@, segs[1], value)]
          ELSE IF Len(segs) > 1
               THEN \* intermediate mappings: scratch[segs[1]] becomes an object
                    [env EXCEPT !.scratch = Put(@, segs[1], Obj)]
          ELSE env

\* getScratchValue(scratch, path)
getScratchValue(scratch, path) ==
  LET segs == IF path # <<>> /\ path[1] = "scratch" THEN Tail(path) ELSE path
  IN IF segs = <<>> THEN Obj
     ELSE IF Len(segs) = 1 THEN Get(scratch, segs[1])
     ELSE Undef

\* execInner, case 'set'
execSet(env, dsl) ==
  IF dsl.path = <<>> THEN Thrown(env, "set.path must be non-empty string")
  ELSE IF (IF dsl.path[1] = "scratch" THEN Tail(dsl.path) ELSE dsl.path) = <<>>
       THEN Thrown(env, "path must target scratch.*")
  ELSE Done(setByPath(env, dsl.path, dsl.value), PlainStdout)

\* finalize without the test of requirePromptReadBeforeFinalize
execFinalizeUnguarded(env, dsl, o) ==
  LET value == getScratchValue(env.scratch, dsl.from)
  IN IF value.t = "undef" THEN Thrown(env, "scratch.from is undefined")
     ELSE Done([env EXCEPT !.final = Str(ToStr(value))], PlainStdout)

\* execInner, case 'finalize' (coerceDSL always supplies a non-empty from)
execFinalize(env, dsl, o) ==
  IF o.requirePromptReadBeforeFinalize /\ env.budget.promptReadCharsUsed <= 0
  THEN Thrown(env, "must read prompt before finalize")
  ELSE LET value == getScratchValue(env.scratch, dsl.from)
       IN IF value.t = "undef" THEN Thrown(env, "scratch.from is undefined")
          ELSE Done([env EXCEPT !.final = Str(ToStr(value))], PlainStdout)

\* readPromptAll: served from promptCache once a whole read has succeeded,
\* else by the document store, which answers (storeOk) or rejects
readAllOk(env, storeOk) == env.promptCache \/ storeOk

\* execInner, case 'prompt_meta'
execPromptMeta(env, storeOk) ==
  IF ~readAllOk(env, storeOk) THEN Thrown(env, "document store read failed")
  ELSE Done([env EXCEPT !.promptCache = TRUE], PlainStdout)

\* execInner, case 'slice_prompt'
execSlicePrompt(env, dsl, clock, storeOk) ==
  IF dsl.out = "" THEN Thrown(env, "slice_prompt.out must be non-empty string")
  ELSE LET start == Max(0, dsl.start)
           end == Max(start, dsl.end)
           c == consumePromptChars(env.budget, end - start, clock)
           charged == [env EXCEPT !.budget = c.budget]
           value == Slice(env.prompt, start, end)
       IN IF c.err # "ok" THEN Breach(charged, c.err)
          ELSE IF ~readAllOk(env, storeOk)
               THEN Thrown(charged, "document store read failed")
          ELSE Done([charged EXCEPT !.scratch = Put(@, dsl.out, Str(value))],
                    Stdout(SlicePrefixLen,
                           JsonEscape(Slice(value, 0, StdoutPreviewChars))))

RECURSIVE Chunks(_, _)
\* lines.slice(i, i + maxLines).join('\n') for i = 0, maxLines, ...
Chunks(lines, maxLines) ==
  IF lines = <<>> THEN <<>>
  ELSE <<JoinWith(SubSeq(lines, 1, Min(maxLines, Len(lines))), <<"NL">>)>>
       \o Chunks(SubSeq(lines, Min(maxLines, Len(lines)) + 1, Len(lines)), maxLines)

\* execInner, case 'chunk_newlines'
execChunkNewlines(env, dsl, clock, storeOk) ==
  IF dsl.out = "" THEN Thrown(env, "chunk_newlines.out must be non-empty string")
  ELSE IF dsl.maxLines <= 0 THEN Thrown(env, "chunk_newlines.maxLines must be > 0")
  ELSE IF ~readAllOk(env, storeOk) THEN Thrown(env, "document store read failed")
  ELSE LET read == [env EXCEPT !.promptCache = TRUE]
           c == consumePromptChars(env.budget, Len(env.prompt), clock)
           chunks == Chunks(SplitLines(env.prompt), dsl.maxLines)
       IN IF c.err # "ok" THEN Breach([read EXCEPT !.budget = c.budget], c.err)
          ELSE Done([read EXCEPT !.budget = c.budget,
                                 !.scratch = Put(@, dsl.out, Arr(chunks))],
                    Stdout(ChunkPrefixLen,
                           JsonEscape(Slice(chunks[1], 0, StdoutPreviewChars))))

\* execInner for the actions that finish without a sub-call
execInner(env, dsl, o, clock, storeOk) ==
  CASE dsl.op = "prompt_meta" -> execPromptMeta(env, storeOk)
    [] dsl.op = "slice_prompt" -> execSlicePrompt(env, dsl, clock, storeOk)
    [] dsl.op = "chunk_newlines" -> execChunkNewlines(env, dsl, clock, storeOk)
    [] dsl.op = "set" -> execSet(env, dsl)
    [] dsl.op = "finalize" -> execFinalize(env, dsl, o)
    [] OTHER -> Thrown(env, "not followed by the model")

(***************************************************************************)
(* The state of one root call.                                             *)
(***************************************************************************)
VARIABLES
  opts,      \* the RLMOptions of the call and the prompt it was given
  stack,     \* the environments of the active call chain; stack[1] is the root
  cache,     \* runtime.sharedCache: fingerprint -> final
  now,       \* Date.now()
  llmCalls,  \* number of replies the language model has given
  result,    \* how the root call ended
  pool,      \* the sub-calls of a sub_map that runs them side by side
  imp,       \* a call of runImprovementLoop or runLongImprovementLoop
  plan,      \* a call of createRLMPlan
  sym,       \* a metric symbol made by createMetricSymbol and the calls of it
  csv        \* a call of parseCsv

vars == <<opts, stack, cache, now, llmCalls, result, pool, imp, plan, sym, csv>>

top == stack[Len(stack)]

SetTop(env) == [stack EXCEPT ![Len(stack)] = env]

metaPreviewChars == Or(opts.metaPreviewChars, DefaultMetaPreviewChars)

Message(role, kind, text) == [role |-> role, kind |-> kind, text |-> text]

\* the trace events: root_step, repl_exec and sub_call
RootStepEvent(step, err) ==
  [t |-> "root_step", step |-> step, err |-> err, depth |-> 0, query |-> <<>>,
   cached |-> FALSE]
ReplExecEvent(step) ==
  [t |-> "repl_exec", step |-> step, err |-> "", depth |-> 0, query |-> <<>>,
   cached |-> FALSE]
SubCallEvent(depth, query, cached) ==
  [t |-> "sub_call", step |-> 0, err |-> "", depth |-> depth, query |-> query,
   cached |-> cached]

NoResult == [err |-> "", kind |-> "", msg |-> "", stdout |-> PlainStdout]

NoSub == [items |-> <<>>, i |-> 0, out |-> <<>>]

\* buildInitialMetadata: the task is the only text of the message that the
\* caller's data decides
buildInitialMetadata(task) ==
  Message("user", "rlm_init", IF task = None THEN <<>> ELSE JsonEscape(task[1]))

\* initEnv, with the two opening messages of runInternal
initEnv(prompt, depth, budgetOverride, task, clock) ==
  [prompt |-> prompt,
   task |-> task,
   budget |-> [defaultBudget(budgetOverride, clock) EXCEPT !.depth = depth],
   scratch |-> <<>>,
   final |-> Undef,
   promptCache |-> FALSE,
   history |-> <<Message("system", "system", <<>>), buildInitialMetadata(task)>>,
   trace |-> <<>>,
   consecutiveErrors |-> 0,
   pc |-> "loop",
   dsl |-> NoDsl,
   sub |-> NoSub,
   res |-> NoResult]

\* makeChildBudget without the maxDepth line: the child's depth limit would
\* come from subBudget or the defaults
makeChildBudgetOwnDepth(parent, subBudget, override, clock) ==
  LET spread == Spread(Or(subBudget, NoOverride), Or(override, NoOverride))
  IN [spread EXCEPT
        !.startedAt = IF override # None /\ override[1].startedAt # None
                      THEN override[1].startedAt ELSE Some(clock)]

makeChildBudget(parent, subBudget, override, clock) ==
  LET spread == Spread(Or(subBudget, NoOverride), Or(override, NoOverride))
  IN [spread EXCEPT
        !.maxDepth = IF override # None /\ override[1].maxDepth # None
                     THEN override[1].maxDepth ELSE Some(parent.maxDepth),
        !.startedAt = IF override # None /\ override[1].startedAt # None
                      THEN override[1].startedAt ELSE Some(clock)]

RECURSIVE Substitute(_, _)
\* queryTemplate.replaceAll('{{item}}', item)
Substitute(template, item) ==
  IF template = <<>> THEN <<>>
  ELSE (IF Head(template) = "{{item}}" THEN item ELSE <<Head(template)>>)
       \o Substitute(Tail(template), item)

\* createSubRLMRunner: the cache key of a sub-call with options {prompt: subPrompt}
cacheKey(env, query, subPrompt) ==
  hashString([promptId |-> hashString(env.prompt), query |-> query,
              subPrompt |-> subPrompt, options |-> subPrompt])

CacheHas(key) == key \in DOMAIN cache

\* a cache.set that keeps the cache as it is
CacheSetDropped(key, final) == cache

CacheSet(key, final) ==
  [k \in DOMAIN cache \cup {key} |-> IF k = key THEN final ELSE cache[k]]

(***************************************************************************)
(* The inputs.                                                             *)
(***************************************************************************)
Prompts ==
  { <<"X", "Z">>, <<"X", "NL", "X">>, <<"X", "NL", "Z">> }

Limits(steps, subCalls, depth, chars, time) ==
  [maxSteps |-> steps, maxSubCalls |-> subCalls, maxDepth |-> depth,
   maxPromptReadChars |-> chars, maxTimeMs |-> time, startedAt |-> None]

\* opts.budget: the defaults, or one or two limits tightened
BudgetOverrides ==
  { NoOverride,
    Limits(Some(2), None, None, None, None),
    Limits(Some(1), None, None, None, Some(0)),
    Limits(None, Some(0), None, None, None),
    Limits(None, Some(1), None, None, None),
    Limits(None, None, Some(0), None, None),
    Limits(None, None, Some(0), None, Some(0)),
    Limits(None, None, Some(1), None, None),
    Limits(None, None, None, Some(2), None),
    Limits(None, None, None, Some(2), Some(0)) }

\* opts.subBudget: absent, or the sub-budget of the profiles with one step
SubBudgets ==
  { None, Some(Limits(Some(1), Some(0), None, None, None)) }

Tasks == { None, Some(<<"W">>) }

PureProfile ==
  [enableHeuristicPostprocess |-> FALSE, enableEarlyStopHeuristic |-> FALSE,
   requirePromptReadBeforeFinalize |-> FALSE]

HybridProfile ==
  [enableHeuristicPostprocess |-> TRUE, enableEarlyStopHeuristic |-> TRUE,
   requirePromptReadBeforeFinalize |-> TRUE]

\* the early stop alone, behind a prompt read
EarlyStopProfile ==
  [enableHeuristicPostprocess |-> FALSE, enableEarlyStopHeuristic |-> TRUE,
   requirePromptReadBeforeFinalize |-> TRUE]

Config(p, b, sb, t, ds, pr) ==
  [prompt |-> p, budget |-> b, subBudget |-> sb, task |-> t,
   metaPreviewChars |-> None, maxConsecutiveErrorsForEarlyStop |-> None,
   docStore |-> ds, script |-> <<>>,
   enableHeuristicPostprocess |-> pr.enableHeuristicPostprocess,
   enableEarlyStopHeuristic |-> pr.enableEarlyStopHeuristic,
   requirePromptReadBeforeFinalize |-> pr.requirePromptReadBeforeFinalize]

\* the calls explored: every budget override under the pure profile, the
\* sub-budget of the profiles, the hybrid profile with and without a task
\* over both document stores, and the early stop alone on one document
Configs ==
  { Config(p, b, None, None, "memory", PureProfile) :
      p \in Prompts, b \in BudgetOverrides }
  \cup { Config(p, NoOverride, sb, None, "memory", PureProfile) :
      p \in Prompts, sb \in SubBudgets }
  \cup { Config(p, NoOverride, None, t, ds, HybridProfile) :
      p \in Prompts, t \in Tasks, ds \in {"memory", "remote"} }
  \cup { Config(<<"X", "NL", "Z">>, NoOverride, None, t, "memory", EarlyStopProfile) :
      t \in Tasks }

\* three replies of the scripts: chunk the prompt by lines, map the chunks
\* through sub-calls, set the final
ChunkReply == [Reply(Some("chunk_newlines")) EXCEPT !.maxLines = Some(1)]
SubMapReply == Reply(Some("sub_map"))
SetFinalReply ==
  [Reply(Some("set")) EXCEPT !.path = Some(<<"final">>), !.value = Str(<<"f">>)]

\* a language model that answers by a script (MockLLMProvider): the root and
\* its child chunk and map, the grandchild sets its final, the child runs out
\* of steps, and the root maps again
SharedCacheScript ==
  <<ChunkReply, SubMapReply, ChunkReply, SubMapReply, SetFinalReply, SubMapReply>>

\* the call with that language model: a one-line document, two steps per child
ScriptedConfig ==
  [Config(<<"X", "Z">>, NoOverride, Some(Limits(Some(2), None, None, None, None)),
          None, "memory", PureProfile) EXCEPT !.script = SharedCacheScript]

\* a language model whose script lets the first child of a sub_map set its
\* final and the second child use up its one step
FailingChildScript == <<ChunkReply, SubMapReply, SetFinalReply, ChunkReply>>

\* the call with that language model: a two-line document, one step per child
FailingChildConfig ==
  [Config(<<"X", "NL", "Z">>, NoOverride, Some(Limits(Some(1), None, None, None, None)),
          None, "memory", PureProfile) EXCEPT !.script = FailingChildScript]

\* what the language model may answer in a turn
Replies ==
  { [Reply(Some("set")) EXCEPT !.path = Some(<<"scratch", "answer">>),
                               !.value = Str(<<"k">>)],
    [Reply(Some("set")) EXCEPT !.path = Some(<<"scratch", "picked">>),
                               !.value = Str(<<"NL", "p">>)],
    SetFinalReply,
    [Reply(Some("finalize")) EXCEPT !.from = Some(<<"answer">>)],
    [Reply(Some("slice_prompt")) EXCEPT !.start = Some(0), !.end = Some(2),
                                        !.out = Some("w")],
    ChunkReply,
    SubMapReply,
    [Reply(None) EXCEPT !.json = FALSE] }

\* the replies the language model of the call may give to its next request,
\* and the number of requests followed
RepliesNow ==
  IF opts.script = <<>> THEN Replies ELSE {opts.script[llmCalls + 1]}
LLMCallLimit == IF opts.script = <<>> THEN MaxLLMCalls ELSE Len(opts.script)

\* whether the document store answers a read: the in-memory store always does,
\* a remote one (MCPDocStore) may reject
StoreAnswers == IF opts.docStore = "remote" THEN BOOLEAN ELSE {TRUE}

Running == [status |-> "running", kind |-> "", final |-> <<>>]

\* no sub_map with concurrency is being executed
NoPool ==
  [n |-> 0, items |-> <<>>, next |-> 0, flight |-> {}, slots |-> <<>>,
   phase |-> "idle", round |-> 0, log |-> <<>>]

\* no improvement loop is running
NoImp == [pc |-> "idle"]

\* the function has not been called
NotCalled == [pc |-> "idle"]

Init ==
  /\ opts \in Configs \cup {ScriptedConfig, FailingChildConfig}
  /\ stack = <<initEnv(opts.prompt, 0, opts.budget, opts.task, 0)>>
  /\ cache = <<>>
  /\ now = 0
  /\ llmCalls = 0
  /\ result = Running
  /\ pool = NoPool
  /\ imp = NoImp
  /\ plan = NotCalled
  /\ sym = NotCalled
  /\ csv = NotCalled

(***************************************************************************)
(* rlm/RLM.ts: runInternal, one action per stretch between two awaits.     *)
(***************************************************************************)
\* a rejection of the child that gives the parent its sub-call back
PropagateRolledBack(kind) ==
  IF Len(stack) = 1
  THEN /\ stack' = SetTop([top EXCEPT !.pc = "failed"])
       /\ result' = [status |-> "threw", kind |-> kind, final |-> <<>>]
  ELSE LET parent == stack[Len(stack) - 1]
       IN /\ stack' = [SubSeq(stack, 1, Len(stack) - 1) EXCEPT ![Len(stack) - 1] =
                         [parent EXCEPT !.pc = "exec_done",
                                        !.budget.subCallsUsed = @ - 1,
                                        !.res = [err |-> "BudgetExceeded", kind |-> kind,
                                                 msg |-> "Budget exceeded",
                                                 stdout |-> PlainStdout]]]
          /\ UNCHANGED result

\* a BudgetExceeded leaving runInternal: the root call rejects; a child's
\* rejection surfaces in the parent's sub_map, hence in its repl.exec
Propagate(kind) ==
  IF Len(stack) = 1
  THEN /\ stack' = SetTop([top EXCEPT !.pc = "failed"])
       /\ result' = [status |-> "threw", kind |-> kind, final |-> <<>>]
  ELSE LET parent == stack[Len(stack) - 1]
       IN /\ stack' = [SubSeq(stack, 1, Len(stack) - 1) EXCEPT ![Len(stack) - 1] =
                         [parent EXCEPT !.pc = "exec_done",
                                        !.res = [err |-> "BudgetExceeded", kind |-> kind,
                                                 msg |-> "Budget exceeded",
                                                 stdout |-> PlainStdout]]]
          /\ UNCHANGED result

\* a loop that does not test env.final before its next turn
RequestTurnAnyway ==
  /\ top.pc = "loop"
  /\ llmCalls < LLMCallLimit
  /\ LET c == consumeRootStep(top.budget, now)
     IN /\ c.err = "ok"
        /\ stack' = SetTop([top EXCEPT !.budget = c.budget, !.pc = "await_llm"])
  /\ UNCHANGED <<csv, sym, plan, imp, pool, opts, cache, now, llmCalls, result>>

\* while (env.final === undefined) { consumeRootStep; llm.complete(history) ...
RequestTurn ==
  /\ top.pc = "loop"
  /\ top.final.t = "undef"
  /\ llmCalls < LLMCallLimit
  /\ LET c == consumeRootStep(top.budget, now)
     IN /\ c.err = "ok"
        /\ stack' = SetTop([top EXCEPT !.budget = c.budget, !.pc = "await_llm"])
  /\ UNCHANGED <<csv, sym, plan, imp, pool, opts, cache, now, llmCalls, result>>

\* ... consumeRootStep throws BudgetExceeded out of runInternal
StepRefused ==
  /\ top.pc = "loop"
  /\ top.final.t = "undef"
  /\ LET c == consumeRootStep(top.budget, now)
     IN /\ c.err # "ok"
        /\ Propagate(c.err)
  /\ UNCHANGED <<csv, sym, plan, imp, pool, opts, cache, now, llmCalls>>

\* sub_map up to its first sub-call: the checks of execInner and the items
startSubMap(env, dsl) ==
  LET source == Get(env.scratch, dsl.in)
  IN IF dsl.in = "" THEN Thrown(env, "sub_map.in must be non-empty string")
     ELSE IF dsl.out = "" THEN Thrown(env, "sub_map.out must be non-empty string")
     ELSE IF source.t # "arr" THEN Thrown(env, "scratch.in is not an array")
     ELSE LET maxItems == Max(0, Min(Or(dsl.limit, Len(source.a)), Len(source.a)))
          IN Done([env EXCEPT !.sub = [items |-> SubSeq(source.a, 1, maxItems),
                                       i |-> 0, out |-> <<>>]],
                  PlainStdout)

Settled(r) == [err |-> r.err, kind |-> r.kind, msg |-> r.msg, stdout |-> r.stdout]

\* the reply arrives: history.push(assistant), parseOneJSON, coerceDSL and
\* repl.exec up to its end or to the first sub-call of a sub_map
Interpret ==
  /\ top.pc = "await_llm"
  /\ \E raw \in RepliesNow, dt \in 0..1, storeOk \in StoreAnswers :
       /\ now + dt <= MaxClock
       /\ now' = now + dt
       /\ LET heard == [top EXCEPT !.history =
                          Append(@, Message("assistant", "reply", ToStr(raw.value))),
                                     !.dsl = NoDsl]
              co == coerceDSL(raw)
              step == top.budget.stepsUsed
          IN IF ~co.ok
             THEN stack' = SetTop([heard EXCEPT !.pc = "exec_done",
                                                !.res = Settled(Thrown(heard, co.err))])
             ELSE IF co.dsl.op = "sub_map"
             THEN LET r == startSubMap([heard EXCEPT !.dsl = co.dsl], co.dsl)
                  IN stack' = SetTop([r.env EXCEPT
                                        !.pc = IF r.err = "" THEN "sub_map" ELSE "exec_done",
                                        !.res = Settled(r)])
             ELSE LET r == execInner([heard EXCEPT !.dsl = co.dsl], co.dsl, opts,
                                     now', storeOk)
                  IN stack' = SetTop([r.env EXCEPT
                                        !.pc = "exec_done",
                                        !.res = Settled(r),
                                        !.trace = IF r.err = ""
                                                  THEN Append(@, ReplExecEvent(step))
                                                  ELSE @])
  /\ llmCalls' = llmCalls + 1
  /\ UNCHANGED <<csv, sym, plan, imp, pool, opts, cache, result>>

\* the item, query and cache key of the sub-call a sub_map is about to make
NextItem(env) == env.sub.items[env.sub.i + 1]
NextQuery(env) == Substitute(env.dsl.queryTemplate, NextItem(env))
NextKey(env) == cacheKey(env, NextQuery(env), NextItem(env))

\* a cache hit that goes through consumeSubCall
SubCallHitCharged ==
  /\ top.pc = "sub_map"
  /\ top.sub.i < Len(top.sub.items)
  /\ CacheHas(NextKey(top))
  /\ stack' = SetTop([top EXCEPT
                        !.budget = consumeSubCall(top.budget, now).budget,
                        !.trace = Append(@, SubCallEvent(top.budget.depth + 1,
                                                         NextQuery(top), TRUE)),
                        !.sub.out = Append(@, cache[NextKey(top)]),
                        !.sub.i = @ + 1])
  /\ UNCHANGED <<csv, sym, plan, imp, pool, opts, cache, now, llmCalls, result>>

\* subRLM: the fingerprint is in the cache
SubCallHit ==
  /\ top.pc = "sub_map"
  /\ top.sub.i < Len(top.sub.items)
  /\ CacheHas(NextKey(top))
  /\ stack' = SetTop([top EXCEPT
                        !.trace = Append(@, SubCallEvent(top.budget.depth + 1,
                                                         NextQuery(top), TRUE)),
                        !.sub.out = Append(@, cache[NextKey(top)]),
                        !.sub.i = @ + 1])
  /\ UNCHANGED <<csv, sym, plan, imp, pool, opts, cache, now, llmCalls, result>>

\* subRLM on a miss: ensureNextDepth, then consumeSubCall
admitSubCall(budget, clock) ==
  LET d == ensureNextDepth(budget)
  IN IF d.err # "ok" THEN d ELSE consumeSubCall(budget, clock)

\* subRLM: a miss that the budget refuses; sub_map and repl.exec throw
SubCallRefused ==
  /\ top.pc = "sub_map"
  /\ top.sub.i < Len(top.sub.items)
  /\ ~CacheHas(NextKey(top))
  /\ LET a == admitSubCall(top.budget, now)
     IN /\ a.err # "ok"
        /\ stack' = SetTop([top EXCEPT !.pc = "exec_done",
                                       !.res = Settled(Breach(top, a.err))])
  /\ UNCHANGED <<csv, sym, plan, imp, pool, opts, cache, now, llmCalls, result>>

\* a runChild that hands the parent's scratch to the child
SubCallSpawnSharing ==
  /\ top.pc = "sub_map"
  /\ top.sub.i < Len(top.sub.items)
  /\ ~CacheHas(NextKey(top))
  /\ LET a == admitSubCall(top.budget, now)
         charged == [top EXCEPT !.budget = a.budget, !.pc = "await_child"]
         child == initEnv(NextItem(top), charged.budget.depth + 1,
                          makeChildBudget(charged.budget, opts.subBudget, None, now),
                          Some(NextQuery(top)), now)
     IN /\ a.err = "ok"
        /\ stack' = Append(SetTop(charged), [child EXCEPT !.scratch = top.scratch])
  /\ UNCHANGED <<csv, sym, plan, imp, pool, opts, cache, now, llmCalls, result>>

\* subRLM: a miss that is admitted; runChild starts the child's runInternal
SubCallSpawn ==
  /\ top.pc = "sub_map"
  /\ top.sub.i < Len(top.sub.items)
  /\ ~CacheHas(NextKey(top))
  /\ LET a == admitSubCall(top.budget, now)
         charged == [top EXCEPT !.budget = a.budget, !.pc = "await_child"]
         child == initEnv(NextItem(top), charged.budget.depth + 1,
                          makeChildBudget(charged.budget, opts.subBudget, None, now),
                          Some(NextQuery(top)), now)
     IN /\ a.err = "ok"
        /\ stack' = Append(SetTop(charged), child)
  /\ UNCHANGED <<csv, sym, plan, imp, pool, opts, cache, now, llmCalls, result>>

\* the final that runInternal returns
returnedFinal(env) ==
  postprocessFinal(env.final.s, env.prompt, env.task, opts.enableHeuristicPostprocess)

\* a child whose trace is merged into the trace of its parent
ChildReturnMerging ==
  /\ Len(stack) > 1
  /\ top.pc = "loop"
  /\ top.final.t # "undef"
  /\ LET parent == stack[Len(stack) - 1]
         final == returnedFinal(top)
     IN /\ cache' = CacheSet(NextKey(parent), final)
        /\ stack' = [SubSeq(stack, 1, Len(stack) - 1) EXCEPT ![Len(stack) - 1] =
                       [parent EXCEPT
                          !.pc = "sub_map",
                          !.trace = Append(@ \o top.trace,
                                           SubCallEvent(parent.budget.depth + 1,
                                                        NextQuery(parent), FALSE)),
                          !.sub.out = Append(@, final),
                          !.sub.i = @ + 1]]
  /\ UNCHANGED <<csv, sym, plan, imp, pool, opts, now, llmCalls, result>>

\* a child whose result is not put into the cache of the call
ChildReturnUncached ==
  /\ Len(stack) > 1
  /\ top.pc = "loop"
  /\ top.final.t # "undef"
  /\ LET parent == stack[Len(stack) - 1]
         final == returnedFinal(top)
     IN stack' = [SubSeq(stack, 1, Len(stack) - 1) EXCEPT ![Len(stack) - 1] =
                    [parent EXCEPT
                       !.pc = "sub_map",
                       !.trace = Append(@, SubCallEvent(parent.budget.depth + 1,
                                                        NextQuery(parent), FALSE)),
                       !.sub.out = Append(@, final),
                       !.sub.i = @ + 1]]
  /\ UNCHANGED <<csv, sym, plan, imp, pool, opts, cache, now, llmCalls, result>>

\* the child's loop ended: cache.set, the sub_call event, out.push
ChildReturn ==
  /\ Len(stack) > 1
  /\ top.pc = "loop"
  /\ top.final.t # "undef"
  /\ LET parent == stack[Len(stack) - 1]
         final == returnedFinal(top)
     IN /\ cache' = CacheSet(NextKey(parent), final)
        /\ stack' = [SubSeq(stack, 1, Len(stack) - 1) EXCEPT ![Len(stack) - 1] =
                       [parent EXCEPT
                          !.pc = "sub_map",
                          !.trace = Append(@, SubCallEvent(parent.budget.depth + 1,
                                                           NextQuery(parent), FALSE)),
                          !.sub.out = Append(@, final),
                          !.sub.i = @ + 1]]
  /\ UNCHANGED <<csv, sym, plan, imp, pool, opts, now, llmCalls, result>>

\* sub_map has every result: scratch[out] = out, and repl.exec records it
SubMapFinish ==
  /\ top.pc = "sub_map"
  /\ top.sub.i = Len(top.sub.items)
  /\ LET out == top.sub.out
         first == IF out = <<>> THEN <<>> ELSE out[1]
     IN stack' = SetTop([top EXCEPT
                           !.scratch = Put(@, top.dsl.out, Arr(out)),
                           !.pc = "exec_done",
                           !.res = Settled(Done(top,
                                     Stdout(SubMapPrefixLen,
                                            JsonEscape(Slice(first, 0, StdoutPreviewChars))))),
                           !.trace = Append(@, ReplExecEvent(top.budget.stepsUsed))])
  /\ UNCHANGED <<csv, sym, plan, imp, pool, opts, cache, now, llmCalls, result>>

\* buildStdoutMetadata: the preview of stdout, escaped once more by JSON.stringify
buildStdoutMetadata(stdout, maxChars) ==
  Message("user", "rlm_stdout", JsonEscape(makeStdoutMeta(stdout, maxChars).text))

\* buildErrorMetadata
buildErrorMetadata(env, errorText) == Message("user", "rlm_error", <<>>)

\* the try branch after repl.exec returned
observeSuccess(env) ==
  LET told == [env EXCEPT
                 !.consecutiveErrors = 0,
                 !.history = Append(@, buildStdoutMetadata(env.res.stdout, metaPreviewChars)),
                 !.trace = Append(@, RootStepEvent(env.budget.stepsUsed, "")),
                 !.pc = "loop"]
      early == maybeAutoFinalizeFromScratch(told, opts)
  IN IF early # None THEN [told EXCEPT !.final = Str(early[1])] ELSE told

ObserveSuccess ==
  /\ top.pc = "exec_done"
  /\ top.res.err = ""
  /\ stack' = SetTop(observeSuccess(top))
  /\ UNCHANGED <<csv, sym, plan, imp, pool, opts, cache, now, llmCalls, result>>

\* a catch branch that tells the language model nothing
observeErrorSilent(env) ==
  LET errorText == IF env.res.err = "BudgetExceeded" THEN env.res.kind ELSE env.res.msg
      told == [env EXCEPT
                 !.consecutiveErrors = @ + 1,
                 !.trace = Append(@, RootStepEvent(env.budget.stepsUsed, errorText)),
                 !.pc = "loop"]
      fallback == heuristicSolveByTask(env.prompt, env.task)
  IN IF /\ opts.enableEarlyStopHeuristic
        /\ told.consecutiveErrors >=
             Or(opts.maxConsecutiveErrorsForEarlyStop, DefaultMaxConsecutiveErrors)
        /\ fallback # None
     THEN [told EXCEPT !.final = Str(fallback[1])]
     ELSE told

\* a catch branch that compares the errors before this one with the threshold
observeErrorEager(env) ==
  LET errorText == IF env.res.err = "BudgetExceeded" THEN env.res.kind ELSE env.res.msg
      told == [env EXCEPT
                 !.consecutiveErrors = @ + 1,
                 !.history = Append(@, buildErrorMetadata(env, errorText)),
                 !.trace = Append(@, RootStepEvent(env.budget.stepsUsed, errorText)),
                 !.pc = "loop"]
      fallback == heuristicSolveByTask(env.prompt, env.task)
  IN IF /\ opts.enableEarlyStopHeuristic
        /\ told.consecutiveErrors + 1 >=
             Or(opts.maxConsecutiveErrorsForEarlyStop, DefaultMaxConsecutiveErrors)
        /\ fallback # None
     THEN [told EXCEPT !.final = Str(fallback[1])]
     ELSE told

\* the catch branch: whatever parseOneJSON, coerceDSL or repl.exec threw
observeError(env) ==
  LET errorText == IF env.res.err = "BudgetExceeded" THEN env.res.kind ELSE env.res.msg
      told == [env EXCEPT
                 !.consecutiveErrors = @ + 1,
                 !.history = Append(@, buildErrorMetadata(env, errorText)),
                 !.trace = Append(@, RootStepEvent(env.budget.stepsUsed, errorText)),
                 !.pc = "loop"]
      fallback == heuristicSolveByTask(env.prompt, env.task)
  IN IF /\ opts.enableEarlyStopHeuristic
        /\ told.consecutiveErrors >=
             Or(opts.maxConsecutiveErrorsForEarlyStop, DefaultMaxConsecutiveErrors)
        /\ fallback # None
     THEN [told EXCEPT !.final = Str(fallback[1])]
     ELSE told

ObserveError ==
  /\ top.pc = "exec_done"
  /\ top.res.err # ""
  /\ stack' = SetTop(observeError(top))
  /\ UNCHANGED <<csv, sym, plan, imp, pool, opts, cache, now, llmCalls, result>>

\* the root's loop ended: return {final, trace, budget}
RootReturn ==
  /\ Len(stack) = 1
  /\ top.pc = "loop"
  /\ top.final.t # "undef"
  /\ stack' = SetTop([top EXCEPT !.pc = "returned"])
  /\ result' = [status |-> "returned", kind |-> "", final |-> returnedFinal(top)]
  /\ UNCHANGED <<csv, sym, plan, imp, pool, opts, cache, now, llmCalls>>

Next ==
  \/ RequestTurn
  \/ StepRefused
  \/ Interpret
  \/ SubCallHit
  \/ SubCallRefused
  \/ SubCallSpawn
  \/ ChildReturn
  \/ SubMapFinish
  \/ ObserveSuccess
  \/ ObserveError
  \/ RootReturn

Spec == Init /\ [][Next]_vars

(***************************************************************************)
(* repl/DSLRepl.ts: sub_map with concurrency = n, executed on an           *)
(* environment whose scratch holds the chunks, as the tests of DSLRepl do. *)
(* Up to n sub-calls are in flight; each result goes to the slot of its    *)
(* item.  The sub-calls are those of createSubRLMRunner; what the child    *)
(* does is left open: it returns some final or it throws.                  *)
(***************************************************************************)
\* the documents mapped: two equal lines, two different lines, three lines
MapPrompts ==
  { <<"X", "NL", "X">>, <<"X", "NL", "Z">>, <<"X", "NL", "Z", "NL", "X">> }

MapConfigs ==
  { Config(p, b, None, None, "memory", PureProfile) :
      p \in MapPrompts,
      b \in {NoOverride, Limits(None, Some(1), None, None, None)} }

\* what a child may return as its final
ChildFinals == { <<"f">>, <<"k">> }

\* the slots allocated for the items, none of them started
startPool(items, n, round, log) ==
  [n |-> n, items |-> items, next |-> 0, flight |-> {},
   slots |-> [i \in 1..Len(items) |-> None],
   phase |-> "running", round |-> round, log |-> log]

\* makeEnv(prompt), exec(chunk_newlines), then exec(sub_map with concurrency)
MapInit ==
  /\ opts \in MapConfigs
  /\ cache = <<>>
  /\ now = 0
  /\ llmCalls = 0
  /\ result = Running
  /\ \E n \in 1..MaxConcurrency :
       LET made == initEnv(opts.prompt, 0, opts.budget, opts.task, 0)
           chunked == execChunkNewlines(made, coerceDSL(ChunkReply).dsl, 0, TRUE).env
           dsl == coerceDSL(SubMapReply).dsl
           begun == startSubMap([chunked EXCEPT !.dsl = dsl], dsl).env
       IN /\ stack = <<[begun EXCEPT !.pc = "sub_map"]>>
          /\ pool = startPool(begun.sub.items, n, 1, <<>>)
  /\ imp = NoImp
  /\ plan = NotCalled
  /\ sym = NotCalled
  /\ csv = NotCalled

\* the query and the fingerprint of the sub-call for item i
PoolQuery(i) == Substitute(top.dsl.queryTemplate, pool.items[i])
PoolKey(i) == cacheKey(top, PoolQuery(i), pool.items[i])

\* a worker is free and an item is left
WorkerFree ==
  /\ pool.phase = "running"
  /\ pool.next < Len(pool.items)
  /\ Cardinality(pool.flight) < pool.n

LogEntry(i, value, cached) ==
  [i |-> i, key |-> PoolKey(i), value |-> value, cached |-> cached,
   round |-> pool.round]

\* subRLM for the next item: the fingerprint is in the cache
MapStartHit ==
  /\ WorkerFree
  /\ LET i == pool.next + 1
     IN /\ CacheHas(PoolKey(i))
        /\ pool' = [pool EXCEPT !.next = i,
                                !.slots[i] = Some(cache[PoolKey(i)]),
                                !.log = Append(@, LogEntry(i, cache[PoolKey(i)], TRUE))]
        /\ stack' = SetTop([top EXCEPT
                              !.trace = Append(@, SubCallEvent(top.budget.depth + 1,
                                                               PoolQuery(i), TRUE))])
  /\ UNCHANGED <<csv, sym, plan, imp, opts, cache, now, llmCalls, result>>

\* subRLM for the next item: a miss that is admitted; the child starts
MapStartMiss ==
  /\ WorkerFree
  /\ LET i == pool.next + 1
         a == admitSubCall(top.budget, now)
     IN /\ ~CacheHas(PoolKey(i))
        /\ a.err = "ok"
        /\ pool' = [pool EXCEPT !.next = i, !.flight = @ \cup {i}]
        /\ stack' = SetTop([top EXCEPT !.budget = a.budget])
  /\ UNCHANGED <<csv, sym, plan, imp, opts, cache, now, llmCalls, result>>

\* subRLM for the next item: a miss that the budget refuses; sub_map throws
MapStartRefused ==
  /\ WorkerFree
  /\ LET i == pool.next + 1
         a == admitSubCall(top.budget, now)
     IN /\ ~CacheHas(PoolKey(i))
        /\ a.err # "ok"
        /\ pool' = [pool EXCEPT !.next = i, !.phase = "failed"]
        /\ stack' = SetTop([top EXCEPT !.pc = "exec_done",
                                       !.res = Settled(Breach(top, a.err))])
  /\ UNCHANGED <<csv, sym, plan, imp, opts, cache, now, llmCalls, result>>

\* a sub_map that appends each result when it arrives
MapCompleteInArrivalOrder ==
  /\ \E i \in pool.flight, final \in ChildFinals :
       LET arrived == Cardinality({j \in DOMAIN pool.slots : pool.slots[j] # None}) + 1
       IN /\ cache' = CacheSet(PoolKey(i), final)
          /\ pool' = [pool EXCEPT !.flight = @ \ {i},
                                  !.slots[arrived] = Some(final),
                                  !.log = Append(@, LogEntry(i, final, FALSE))]
          /\ stack' = SetTop([top EXCEPT
                                !.trace = Append(@, SubCallEvent(top.budget.depth + 1,
                                                                 PoolQuery(i), FALSE))])
  /\ UNCHANGED <<csv, sym, plan, imp, opts, now, llmCalls, result>>

\* a child in flight returns: cache.set, the sub_call event, and its result
\* goes to the slot of its item
MapComplete ==
  /\ \E i \in pool.flight, final \in ChildFinals :
       /\ cache' = CacheSet(PoolKey(i), final)
       /\ pool' = [pool EXCEPT !.flight = @ \ {i},
                               !.slots[i] = Some(final),
                               !.log = Append(@, LogEntry(i, final, FALSE))]
       /\ stack' = SetTop([top EXCEPT
                             !.trace = Append(@, SubCallEvent(top.budget.depth + 1,
                                                              PoolQuery(i), FALSE))])
  /\ UNCHANGED <<csv, sym, plan, imp, opts, now, llmCalls, result>>

\* a child in flight throws BudgetExceeded: sub_map throws
MapChildFails ==
  /\ \E i \in pool.flight :
       /\ pool' = [pool EXCEPT !.flight = @ \ {i}, !.phase = "failed"]
       /\ stack' = IF pool.phase = "failed" THEN stack
                   ELSE SetTop([top EXCEPT !.pc = "exec_done",
                                           !.res = Settled(Breach(top, "maxSteps"))])
  /\ UNCHANGED <<csv, sym, plan, imp, opts, cache, now, llmCalls, result>>

\* every slot is filled: scratch[out] = the slots in the order of the items
MapFinish ==
  /\ pool.phase = "running"
  /\ pool.next = Len(pool.items)
  /\ pool.flight = {}
  /\ LET out == [i \in 1..Len(pool.items) |-> pool.slots[i][1]]
         first == IF out = <<>> THEN <<>> ELSE out[1]
     IN stack' = SetTop([top EXCEPT
                           !.scratch = Put(@, top.dsl.out, Arr(out)),
                           !.pc = "exec_done",
                           !.res = Settled(Done(top,
                                     Stdout(SubMapPrefixLen,
                                            JsonEscape(Slice(first, 0, StdoutPreviewChars))))),
                           !.trace = Append(@, ReplExecEvent(top.budget.stepsUsed))])
  /\ pool' = [pool EXCEPT !.phase = "done"]
  /\ UNCHANGED <<csv, sym, plan, imp, opts, cache, now, llmCalls, result>>

\* the same sub_map is executed once more
MapAgain ==
  /\ pool.phase = "done"
  /\ pool.round < MaxRounds
  /\ pool' = startPool(pool.items, pool.n, pool.round + 1, pool.log)
  /\ stack' = SetTop([top EXCEPT !.pc = "sub_map"])
  /\ UNCHANGED <<csv, sym, plan, imp, opts, cache, now, llmCalls, result>>

MapNext ==
  \/ MapStartHit
  \/ MapStartMiss
  \/ MapStartRefused
  \/ MapComplete
  \/ MapChildFails
  \/ MapFinish
  \/ MapAgain

MapSpec == MapInit /\ [][MapNext]_vars

(***************************************************************************)
(* repl/DSLRepl.ts: exec called on an environment action after action, as  *)
(* the tests of DSLRepl do; what an action throws goes to the caller.      *)
(***************************************************************************)
PromptMetaReply == Reply(Some("prompt_meta"))

\* the actions executed: the three that read the document and one that does not
ReplActions ==
  { PromptMetaReply,
    ChunkReply,
    [Reply(Some("slice_prompt")) EXCEPT !.start = Some(0), !.end = Some(2),
                                        !.out = Some("w")],
    [Reply(Some("set")) EXCEPT !.path = Some(<<"scratch", "answer">>),
                               !.value = Str(<<"k">>)] }

ReplConfigs ==
  { Config(p, b, None, None, ds, PureProfile) :
      p \in Prompts,
      b \in {NoOverride, Limits(None, None, None, Some(2), None)},
      ds \in {"memory", "remote"} }

\* makeEnv(prompt) and new DSLRepl(env, hooks)
ReplInit ==
  /\ opts \in ReplConfigs
  /\ stack = <<[initEnv(opts.prompt, 0, opts.budget, opts.task, 0) EXCEPT !.pc = "repl"]>>
  /\ cache = <<>>
  /\ now = 0
  /\ llmCalls = 0
  /\ result = Running
  /\ pool = NoPool
  /\ imp = NoImp
  /\ plan = NotCalled
  /\ sym = NotCalled
  /\ csv = NotCalled

\* what execInner makes of the action
ReplOutcome(raw, storeOk) ==
  LET dsl == coerceDSL(raw).dsl
  IN execInner([top EXCEPT !.dsl = dsl], dsl, opts, now, storeOk)

\* exec: execInner returns stdout and the repl_exec event is pushed
ReplExecReturns ==
  /\ top.pc = "repl"
  /\ llmCalls < MaxExecs
  /\ \E raw \in ReplActions, storeOk \in StoreAnswers :
       LET r == ReplOutcome(raw, storeOk)
       IN /\ r.err = ""
          /\ stack' = SetTop([r.env EXCEPT
                                !.res = Settled(r),
                                !.trace = Append(@, ReplExecEvent(llmCalls + 1))])
  /\ llmCalls' = llmCalls + 1
  /\ UNCHANGED <<csv, sym, plan, imp, pool, opts, cache, now, result>>

\* exec: execInner throws
ReplExecThrows ==
  /\ top.pc = "repl"
  /\ llmCalls < MaxExecs
  /\ \E raw \in ReplActions, storeOk \in StoreAnswers :
       LET r == ReplOutcome(raw, storeOk)
       IN /\ r.err # ""
          /\ stack' = SetTop([r.env EXCEPT !.res = Settled(r)])
  /\ llmCalls' = llmCalls + 1
  /\ UNCHANGED <<csv, sym, plan, imp, pool, opts, cache, now, result>>

ReplNext ==
  \/ ReplExecReturns
  \/ ReplExecThrows

ReplSpec == ReplInit /\ [][ReplNext]_vars

(***************************************************************************)
(* improve/index.ts and improve/longRun.ts: the improvement loop.          *)
(*                                                                         *)
(* A JavaScript number is Num(n, d), the finite number n / d with d > 0,   *)
(* or NaN, or Missing (the undefined read of an absent metric).  Metrics,  *)
(* weights and constraint values are small integers, so every quotient the *)
(* code forms is compared exactly as the division of doubles compares it.  *)
(* A reason such as metric_missing:a is the pair <<"metric_missing", "a">>.*)
(***************************************************************************)
Num(n, d) == [k |-> "num", n |-> n, d |-> d]
NaN == [k |-> "NaN", n |-> 0, d |-> 1]
Missing == [k |-> "undefined", n |-> 0, d |-> 1]

\* Number.isFinite
isFinite(x) == x.k = "num"

\* the keys a snapshot may hold, in the order of Object.entries
MetricKeys == <<"a", "b">>

Snapshot(a, b, gates) == [metrics |-> [a |-> a, b |-> b], gates |-> gates]

validatePolicy(policy) == policy.objectives # <<>>

RECURSIVE scoreFromUnweighted(_, _, _)
scoreFromUnweighted(snapshot, objectives, score) ==
  IF objectives = <<>> THEN [threw |-> <<>>, score |-> score]
  ELSE LET objective == Head(objectives)
           value == snapshot.metrics[objective.key]
       IN IF ~isFinite(value)
            THEN [threw |-> <<"metric_missing", objective.key>>, score |-> 0]
          ELSE IF Or(objective.weight, 1) <= 0
            THEN [threw |-> <<"invalid_weight", objective.key>>, score |-> 0]
          ELSE scoreFromUnweighted(snapshot, Tail(objectives),
                 score + (IF objective.direction = "maximize" THEN value.n
                          ELSE 0 - value.n))

RECURSIVE scoreFrom(_, _, _)
\* the loop of scoreSnapshot over the objectives left
scoreFrom(snapshot, objectives, score) ==
  IF objectives = <<>> THEN [threw |-> <<>>, score |-> score]
  ELSE LET objective == Head(objectives)
           value == snapshot.metrics[objective.key]
           weight == Or(objective.weight, 1)
           oriented == IF objective.direction = "maximize" THEN value.n ELSE 0 - value.n
       IN IF ~isFinite(value)
            THEN [threw |-> <<"metric_missing", objective.key>>, score |-> 0]
          ELSE IF weight <= 0
            THEN [threw |-> <<"invalid_weight", objective.key>>, score |-> 0]
          ELSE scoreFrom(snapshot, Tail(objectives), score + oriented * weight)

scoreSnapshot(snapshot, policy) ==
  IF ~validatePolicy(policy)
    THEN [threw |-> <<"policy.objectives must be non-empty">>, score |-> 0]
  ELSE scoreFrom(snapshot, policy.objectives, 0)

compareMetricStrict(value, comparator, expected) ==
  CASE comparator \in {"lt", "lte"} -> value.n < expected * value.d
    [] comparator \in {"gt", "gte"} -> value.n > expected * value.d
    [] comparator = "eq" -> value.n = expected * value.d

compareMetric(value, comparator, expected) ==
  CASE comparator = "lt" -> value.n < expected * value.d
    [] comparator = "lte" -> value.n <= expected * value.d
    [] comparator = "gt" -> value.n > expected * value.d
    [] comparator = "gte" -> value.n >= expected * value.d
    [] comparator = "eq" -> value.n = expected * value.d

\* metric / baseline for a baseline that is not 0
Quotient(n, baseline) ==
  IF baseline > 0 THEN Num(n, baseline) ELSE Num(0 - n, 0 - baseline)

toConstraintTargetZero(source, metric, baseline) ==
  CASE source = "absolute" -> Num(metric, 1)
    [] source = "delta" -> Num(metric - baseline, 1)
    [] source = "ratio" ->
         IF baseline = 0 THEN Num(0, 1) ELSE Quotient(metric, baseline)
    [] source = "delta_ratio" ->
         IF baseline = 0 THEN Num(0, 1) ELSE Quotient(metric - baseline, baseline)

toConstraintTarget(source, metric, baseline) ==
  CASE source = "absolute" -> Num(metric, 1)
    [] source = "delta" -> Num(metric - baseline, 1)
    [] source = "ratio" ->
         IF baseline = 0 THEN NaN ELSE Quotient(metric, baseline)
    [] source = "delta_ratio" ->
         IF baseline = 0 THEN NaN ELSE Quotient(metric - baseline, baseline)

RECURSIVE dedupeReasons(_)
dedupeReasons(reasons) ==
  IF reasons = <<>> THEN <<>>
  ELSE LET out == dedupeReasons(SubSeq(reasons, 1, Len(reasons) - 1))
           reason == reasons[Len(reasons)]
       IN IF \E i \in 1..Len(out) : out[i] = reason THEN out ELSE Append(out, reason)

\* the reasons validateSnapshot pushes for one constraint
constraintReasons(snapshot, constraint, baseline) ==
  LET metric == snapshot.metrics[constraint.key]
      baselineMetric == baseline.metrics[constraint.key]
      baselineValue == IF isFinite(baselineMetric) THEN baselineMetric.n ELSE 0
      target == toConstraintTarget(Or(constraint.source, "absolute"),
                                   metric.n, baselineValue)
  IN IF ~isFinite(metric) THEN << <<"metric_missing", constraint.key>> >>
     ELSE IF ~isFinite(target) THEN << <<"invalid_constraint_source", constraint.key>> >>
     ELSE IF ~compareMetric(target, constraint.comparator, constraint.value)
       THEN << <<"constraint_failed", constraint.key>> >>
     ELSE <<>>

\* the reasons that set the flag invalid
InvalidReasons == {"invalid_metric", "metric_missing", "invalid_constraint_source"}

validateSnapshot(snapshot, policy, baseline) ==
  LET metrics[i \in 0..Len(MetricKeys)] ==
        IF i = 0 THEN <<>>
        ELSE metrics[i - 1] \o
               (IF snapshot.metrics[MetricKeys[i]].k = "NaN"
                  THEN << <<"invalid_metric", MetricKeys[i]>> >> ELSE <<>>)
      objectives[i \in 0..Len(policy.objectives)] ==
        IF i = 0 THEN <<>>
        ELSE objectives[i - 1] \o
               (IF ~isFinite(snapshot.metrics[policy.objectives[i].key])
                  THEN << <<"metric_missing", policy.objectives[i].key>> >> ELSE <<>>)
      constraints[i \in 0..Len(policy.constraints)] ==
        IF i = 0 THEN <<>>
        ELSE constraints[i - 1] \o
               constraintReasons(snapshot, policy.constraints[i], baseline)
      gates[i \in 0..Len(snapshot.gates)] ==
        IF i = 0 THEN <<>>
        ELSE gates[i - 1] \o
               (IF ~snapshot.gates[i].passed
                  THEN << <<"gate_failed", snapshot.gates[i].gate>> >> ELSE <<>>)
      reasons == metrics[Len(MetricKeys)] \o objectives[Len(policy.objectives)]
                   \o constraints[Len(policy.constraints)] \o gates[Len(snapshot.gates)]
      invalid == \E i \in 1..Len(reasons) : reasons[i][1] \in InvalidReasons
  IN dedupeReasons(IF invalid THEN << <<"invalid_snapshot">> >> \o reasons ELSE reasons)

hasMissingMetricReason(reasons) ==
  \E i \in 1..Len(reasons) : reasons[i][1] \in {"invalid_snapshot", "metric_missing"}

RECURSIVE pickLastAccepted(_)
pickLastAccepted(results) ==
  IF results = <<>> THEN None
  ELSE IF results[Len(results)].accepted THEN Some(results[Len(results)])
  ELSE pickLastAccepted(SubSeq(results, 1, Len(results) - 1))

RECURSIVE pickBestAccepted(_)
\* None, or Some(the result picked)
pickBestAccepted(results) ==
  IF results = <<>> THEN None
  ELSE LET best == pickBestAccepted(SubSeq(results, 1, Len(results) - 1))
           row == results[Len(results)]
       IN IF ~row.accepted \/ row.score = None THEN best
          ELSE IF best = None \/ row.score[1] > best[1].score[1] THEN Some(row)
          ELSE best

\* a candidate judged whatever its score delta
judgeCandidateAnyDelta(st, snapshot) ==
  LET reasons == validateSnapshot(snapshot, st.policy, st.currentBaseline)
      score == IF hasMissingMetricReason(reasons) THEN None
               ELSE Some(scoreSnapshot(snapshot, st.policy).score)
      scoreDelta == IF score = None THEN None
                    ELSE Some(score[1] - st.currentBaselineScore)
  IN [candidate |-> Len(st.results) + 1, accepted |-> reasons = <<>>,
      reasons |-> reasons, snapshot |-> Some(snapshot), score |-> score,
      scoreDelta |-> scoreDelta, error |-> None]

\* runImprovementLoop, the body of try up to the result, for a snapshot the
\* evaluator returned
judgeCandidate(st, snapshot) ==
  LET reasons == validateSnapshot(snapshot, st.policy, st.currentBaseline)
      score == IF hasMissingMetricReason(reasons) THEN None
               ELSE Some(scoreSnapshot(snapshot, st.policy).score)
      scoreDelta == IF score = None THEN None
                    ELSE Some(score[1] - st.currentBaselineScore)
      minScoreDelta == Or(st.policy.minScoreDelta, 0)
      all == IF scoreDelta # None /\ scoreDelta[1] < minScoreDelta
               THEN Append(reasons, <<"score_delta_too_small">>) ELSE reasons
      accepted == all = <<>>
      row == [candidate |-> Len(st.results) + 1, accepted |-> accepted,
              reasons |-> all, snapshot |-> Some(snapshot), score |-> score,
              scoreDelta |-> scoreDelta, error |-> None]
  IN row

\* a loop that moves its baseline on every accepted candidate
recordResultUpdating(st, row) ==
  [st EXCEPT
     !.results = Append(@, row),
     !.evals = @ + 1,
     !.currentBaseline = IF row.accepted THEN row.snapshot[1] ELSE @,
     !.currentBaselineScore = IF row.accepted THEN Or(row.score, @) ELSE @]

\* runImprovementLoop, the body of try from results.push(result)
recordKeepingBaseline(st, row) ==
  [st EXCEPT !.results = Append(@, row), !.evals = @ + 1]

recordResult(st, row) ==
  [st EXCEPT
     !.results = Append(@, row),
     !.evals = @ + 1,
     !.currentBaseline =
       IF row.accepted /\ st.updateBaselineOnAccept THEN row.snapshot[1] ELSE @,
     !.currentBaselineScore =
       IF row.accepted /\ st.updateBaselineOnAccept THEN Or(row.score, @) ELSE @]

failCandidateAborting(st) ==
  [st EXCEPT !.pc = "threw", !.error = <<"message">>]

\* runImprovementLoop, catch
failCandidate(st) ==
  [st EXCEPT
     !.results = Append(@, [candidate |-> Len(st.results) + 1, accepted |-> FALSE,
                            reasons |-> << <<"evaluation_error">> >>,
                            snapshot |-> None, score |-> None, scoreDelta |-> None,
                            error |-> Some("message")]),
     !.evals = @ + 1]

\* runImprovementLoop, from the end of the loop: the report
makeReport(st) ==
  [baseline |-> st.argBaseline, baselineScore |-> st.baseScore,
   results |-> st.results, bestAccepted |-> pickBestAccepted(st.results)]

\* runImprovementLoop up to the loop, for the candidates given
beginRound(st, baseline, n) ==
  LET baseScore == scoreSnapshot(baseline, st.policy)
  IN IF baseScore.threw # <<>> THEN [st EXCEPT !.pc = "threw", !.error = baseScore.threw]
     ELSE [st EXCEPT !.pc = "evaluate", !.candidates = n, !.results = <<>>,
                     !.argBaseline = baseline, !.baseScore = baseScore.score,
                     !.currentBaseline = baseline,
                     !.currentBaselineScore = baseScore.score]

(***************************************************************************)
(* The calls explored.                                                     *)
(***************************************************************************)
Objective(key, direction, weight) ==
  [key |-> key, direction |-> direction, weight |-> weight]
Constraint(key, comparator, value, source) ==
  [key |-> key, comparator |-> comparator, value |-> value, source |-> source]
Policy(objectives, constraints, minScoreDelta) ==
  [objectives |-> objectives, constraints |-> constraints,
   minScoreDelta |-> minScoreDelta]

Policies ==
  { Policy(<<Objective("a", "minimize", None)>>, <<>>, None),
    Policy(<<Objective("a", "minimize", Some(2)), Objective("b", "maximize", None)>>,
           <<Constraint("b", "gte", 1, None)>>, None),
    Policy(<<Objective("a", "minimize", None)>>,
           <<Constraint("b", "lte", 1, Some("ratio"))>>, Some(1)),
    Policy(<<Objective("a", "minimize", None)>>,
           <<Constraint("b", "gt", 0 - 1, Some("delta"))>>, None),
    Policy(<<Objective("a", "minimize", None)>>,
           <<Constraint("b", "lt", 1, Some("delta_ratio")),
             Constraint("b", "eq", 2, Some("absolute"))>>, None),
    Policy(<<Objective("a", "minimize", Some(0))>>, <<>>, None),
    Policy(<<>>, <<>>, None) }

Baselines ==
  { Snapshot(Num(1, 1), Num(1, 1), <<>>),
    Snapshot(Num(2, 1), Num(0, 1), <<>>),
    Snapshot(Missing, Num(1, 1), <<>>) }

\* what the evaluator may return
Snapshots ==
  { Snapshot(Num(0, 1), Num(2, 1), <<[gate |-> "g", passed |-> TRUE]>>),
    Snapshot(Num(1, 1), Num(1, 1), <<>>),
    Snapshot(Num(1, 1), Num(0, 1), <<>>),
    Snapshot(Num(0, 1), Num(2, 1), <<[gate |-> "g", passed |-> FALSE]>>),
    Snapshot(NaN, Num(2, 1), <<>>),
    Snapshot(Num(0, 1), Missing, <<>>) }

ImproveArgs(long, policy, baseline, update, stop, maxIterations, n) ==
  [pc |-> "args", long |-> long, policy |-> policy, baseline |-> baseline,
   updateBaselineOnAccept |-> update, stopWhenNoAccept |-> stop,
   maxIterations |-> maxIterations, candidates |-> n,
   argBaseline |-> baseline, baseScore |-> 0,
   currentBaseline |-> baseline, currentBaselineScore |-> 0,
   results |-> <<>>, evals |-> 0, error |-> <<>>,
   baselineScore |-> 0, iteration |-> 0, rounds |-> <<>>, acceptedHistory |-> <<>>,
   state |-> <<>>, report |-> None]

ImproveInit ==
  /\ opts = ScriptedConfig
  /\ stack = <<>>
  /\ cache = <<>>
  /\ now = 0
  /\ llmCalls = 0
  /\ result = Running
  /\ pool = NoPool
  /\ plan = NotCalled
  /\ sym = NotCalled
  /\ csv = NotCalled
  /\ \E policy \in Policies, baseline \in Baselines, flag \in BOOLEAN,
        n \in 0..MaxEvaluations :
       \/ imp = ImproveArgs(FALSE, policy, baseline, flag, FALSE, 0, n)
       \/ imp = ImproveArgs(TRUE, policy, baseline, FALSE, flag, n, 0)
       \/ imp = ImproveArgs(TRUE, policy, baseline, FALSE, flag, 0 - 1, 0)

\* runImprovementLoop({baseline, candidates, policy, evaluate, updateBaselineOnAccept})
runImprovementLoop ==
  /\ imp.pc = "args"
  /\ ~imp.long
  /\ imp' = beginRound(imp, imp.baseline, imp.candidates)
  /\ UNCHANGED <<opts, stack, cache, now, llmCalls, result, pool, plan, sym, csv>>

\* runLongImprovementLoop, up to the first generateCandidates
runLongImprovementLoop ==
  /\ imp.pc = "args"
  /\ imp.long
  /\ LET baselineScore == scoreSnapshot(imp.baseline, imp.policy)
     IN imp' = IF baselineScore.threw # <<>>
                 THEN [imp EXCEPT !.pc = "threw", !.error = baselineScore.threw]
               ELSE [imp EXCEPT !.baselineScore = baselineScore.score,
                                !.pc = IF 0 < imp.maxIterations THEN "generate"
                                       ELSE "returned"]
  /\ UNCHANGED <<opts, stack, cache, now, llmCalls, result, pool, plan, sym, csv>>

\* generateCandidates answers; no candidates ends the loop, some begin a round
generateCandidates ==
  /\ imp.pc = "generate"
  /\ \E n \in 0..(MaxEvaluations - imp.evals) :
       imp' = IF n = 0 THEN [imp EXCEPT !.pc = "returned"]
              ELSE beginRound(imp, imp.baseline, n)
  /\ UNCHANGED <<opts, stack, cache, now, llmCalls, result, pool, plan, sym, csv>>

\* the evaluator returns a snapshot for the next candidate
Evaluate ==
  /\ imp.pc = "evaluate"
  /\ Len(imp.results) < imp.candidates
  /\ \E snapshot \in Snapshots :
       imp' = recordResult(imp, judgeCandidate(imp, snapshot))
  /\ UNCHANGED <<opts, stack, cache, now, llmCalls, result, pool, plan, sym, csv>>

\* the evaluator throws for the next candidate
EvaluateThrows ==
  /\ imp.pc = "evaluate"
  /\ Len(imp.results) < imp.candidates
  /\ imp' = failCandidate(imp)
  /\ UNCHANGED <<opts, stack, cache, now, llmCalls, result, pool, plan, sym, csv>>

\* runImprovementLoop returns its report to the caller
Report ==
  /\ imp.pc = "evaluate"
  /\ Len(imp.results) = imp.candidates
  /\ ~imp.long
  /\ imp' = [imp EXCEPT !.pc = "returned", !.report = Some(makeReport(imp))]
  /\ UNCHANGED <<opts, stack, cache, now, llmCalls, result, pool, plan, sym, csv>>

endRoundUnbounded(st) ==
  LET round == makeReport(st)
      best == round.bestAccepted
      took == best # None /\ best[1].snapshot # None
  IN [st EXCEPT
        !.rounds = Append(@, round),
        !.acceptedHistory = @ \o SelectSeq(round.results, LAMBDA row : row.accepted),
        !.baseline = IF took THEN best[1].snapshot[1] ELSE @,
        !.baselineScore = IF took THEN best[1].score[1] ELSE @,
        !.state = IF took THEN Append(@, best[1].candidate) ELSE @,
        !.iteration = @ + 1,
        !.pc = IF took \/ ~st.stopWhenNoAccept THEN "generate" ELSE "returned"]

endRoundUnstopped(st) ==
  LET round == makeReport(st)
      best == round.bestAccepted
      took == best # None /\ best[1].snapshot # None
  IN [st EXCEPT
        !.rounds = Append(@, round),
        !.acceptedHistory = @ \o SelectSeq(round.results, LAMBDA row : row.accepted),
        !.baseline = IF took THEN best[1].snapshot[1] ELSE @,
        !.baselineScore = IF took THEN best[1].score[1] ELSE @,
        !.state = IF took THEN Append(@, best[1].candidate) ELSE @,
        !.iteration = @ + 1,
        !.pc = IF st.iteration + 1 < st.maxIterations THEN "generate" ELSE "returned"]

\* runLongImprovementLoop, from the report of a round to the next
\* generateCandidates or to the return
endRound(st) ==
  LET round == makeReport(st)
      best == round.bestAccepted
      took == best # None /\ best[1].snapshot # None
      again == st.iteration + 1 < st.maxIterations
                 /\ (took \/ ~st.stopWhenNoAccept)
  IN [st EXCEPT
        !.rounds = Append(@, round),
        !.acceptedHistory = @ \o SelectSeq(round.results, LAMBDA row : row.accepted),
        !.baseline = IF took THEN best[1].snapshot[1] ELSE @,
        !.baselineScore = IF took THEN best[1].score[1] ELSE @,
        !.state = IF took THEN Append(@, best[1].candidate) ELSE @,
        !.iteration = @ + 1,
        !.pc = IF again THEN "generate" ELSE "returned"]

RoundEnd ==
  /\ imp.pc = "evaluate"
  /\ Len(imp.results) = imp.candidates
  /\ imp.long
  /\ imp' = endRound(imp)
  /\ UNCHANGED <<opts, stack, cache, now, llmCalls, result, pool, plan, sym, csv>>

ImproveNext ==
  \/ runImprovementLoop
  \/ runLongImprovementLoop
  \/ generateCandidates
  \/ Evaluate
  \/ EvaluateThrows
  \/ Report
  \/ RoundEnd

ImproveSpec == ImproveInit /\ [][ImproveNext]_vars

(***************************************************************************)
(* improve/harness.ts: runLongRunProgram.  The long improvement loop is    *)
(* run over a pool of candidates, which stand for their ids; offers[r] is  *)
(* what generateCandidates answered for round r, so that the candidate of  *)
(* row i of round r is offers[r][i].                                       *)
(***************************************************************************)
\* the ids of the rows of all rounds
triedIds(offers, rounds) ==
  UNION { { offers[r][i] : i \in 1..Len(rounds[r].results) } : r \in 1..Len(rounds) }

RECURSIVE selectLoop(_, _, _, _)
\* the loop over args.pool: skip the tried, push, then test the limit
selectLoop(entries, tried, candidateLimit, out) ==
  IF entries = <<>> THEN out
  ELSE IF Head(entries) \in tried
         THEN selectLoop(Tail(entries), tried, candidateLimit, out)
  ELSE IF Len(out) + 1 >= candidateLimit THEN Append(out, Head(entries))
  ELSE selectLoop(Tail(entries), tried, candidateLimit, Append(out, Head(entries)))

selectUntriedCandidates(entries, offers, rounds, candidateLimit) ==
  selectLoop(entries, triedIds(offers, rounds), candidateLimit, <<>>)

\* the pools loaded
ProgramPools ==
  { <<>>, <<"a">>, <<"a", "b">>, <<"a", "b", "c">>, <<"a", "a", "b">> }

\* runLongRunProgram up to runLongImprovementLoop, with a long_run plan
ProgramInit ==
  /\ opts = ScriptedConfig
  /\ stack = <<>>
  /\ cache = <<>>
  /\ now = 0
  /\ llmCalls = 0
  /\ result = Running
  /\ pool = NoPool
  /\ plan = NotCalled
  /\ sym = NotCalled
  /\ csv = NotCalled
  /\ \E entries \in ProgramPools, candidateLimit \in (0 - 1)..2,
        maxIterations \in 1..3, stop \in BOOLEAN :
       imp = ImproveArgs(TRUE, Policy(<<Objective("a", "minimize", None)>>, <<>>, None),
                         Snapshot(Num(2, 1), Num(0, 1), <<>>), FALSE, stop,
                         maxIterations, 0)
             @@ [entries |-> entries, candidateLimit |-> candidateLimit,
                 offers |-> <<>>]

\* the hook generateCandidates of runLongRunProgram answers
offerUntried ==
  /\ imp.pc = "generate"
  /\ LET out == selectUntriedCandidates(imp.entries, imp.offers, imp.rounds,
                                        imp.candidateLimit)
     IN imp' = [(IF Len(out) = 0 THEN [imp EXCEPT !.pc = "returned"]
                 ELSE beginRound(imp, imp.baseline, Len(out)))
                EXCEPT !.offers = Append(@, out)]
  /\ UNCHANGED <<opts, stack, cache, now, llmCalls, result, pool, plan, sym, csv>>

ProgramNext ==
  \/ runLongImprovementLoop
  \/ offerUntried
  \/ Evaluate
  \/ EvaluateThrows
  \/ RoundEnd

ProgramSpec == ProgramInit /\ [][ProgramNext]_vars

(***************************************************************************)
(* improve/harness.ts: createMetricSymbol.  A candidate stands for its     *)
(* cache key, metrics for the number pickMetric reads from them.  A call   *)
(* runs to its return when the key is cached; otherwise it invokes         *)
(* evaluateCandidate and waits, and other calls may start meanwhile.       *)
(***************************************************************************)
CandidateKeys == {"x", "y"}
MetricValues == {1, 2}

\* args.cache?.get(key)
cacheGet(st, key) == IF st.hasCache THEN st.cache[key] ELSE None

\* the symbol called with an empty metricKey: asString throws
symbolCallBadKey(st) ==
  [st EXCEPT !.calls = @ + 1,
             !.last = [key |-> "", from |-> "threw", value |-> None]]

\* the symbol called for a candidate, up to its return or its await
symbolCallUncached(st, key) ==
  [st EXCEPT !.calls = @ + 1,
             !.overlapped = @ \/ Len(st.flight) > 0,
             !.invoked[key] = @ + 1,
             !.flight = Append(@, key)]

symbolCall(st, key) ==
  LET cached == cacheGet(st, key)
  IN IF cached # None
       THEN [st EXCEPT !.calls = @ + 1,
                       !.overlapped = @ \/ Len(st.flight) > 0,
                       !.last = [key |-> key, from |-> "cache", value |-> cached]]
     ELSE [st EXCEPT !.calls = @ + 1,
                     !.overlapped = @ \/ Len(st.flight) > 0,
                     !.invoked[key] = @ + 1,
                     !.flight = Append(@, key)]

\* the sequence without its element i
Without(seq, i) == SubSeq(seq, 1, i - 1) \o SubSeq(seq, i + 1, Len(seq))

\* evaluateCandidate resolves for the call in flight i: cache.set, pickMetric
evaluateResolved(st, i, metrics) ==
  [st EXCEPT !.flight = Without(@, i),
             !.cache = IF st.hasCache THEN [@ EXCEPT ![st.flight[i]] = Some(metrics)]
                       ELSE @,
             !.last = [key |-> st.flight[i], from |-> "evaluate",
                       value |-> Some(metrics)]]

\* evaluateCandidate rejects for the call in flight i: the call rejects
evaluateRejected(st, i) ==
  [st EXCEPT !.flight = Without(@, i),
             !.last = [key |-> st.flight[i], from |-> "threw", value |-> None]]

\* createMetricSymbol({..., cache, cacheKey}), with and without a cache
SymbolInit ==
  /\ opts = ScriptedConfig
  /\ stack = <<>>
  /\ cache = <<>>
  /\ now = 0
  /\ llmCalls = 0
  /\ result = Running
  /\ pool = NoPool
  /\ imp = NoImp
  /\ plan = NotCalled
  /\ csv = NotCalled
  /\ \E hasCache \in BOOLEAN :
       sym = [pc |-> "ready", hasCache |-> hasCache,
              cache |-> [key \in CandidateKeys |-> None],
              invoked |-> [key \in CandidateKeys |-> 0],
              flight |-> <<>>, calls |-> 0, overlapped |-> FALSE,
              last |-> [key |-> "", from |-> "none", value |-> None]]

SymbolCall ==
  /\ sym.pc = "ready"
  /\ sym.calls < MaxSymbolCalls
  /\ \E key \in CandidateKeys : sym' = symbolCall(sym, key)
  /\ UNCHANGED <<opts, stack, cache, now, llmCalls, result, pool, imp, plan, csv>>

SymbolCallBadKey ==
  /\ sym.pc = "ready"
  /\ sym.calls < MaxSymbolCalls
  /\ sym' = symbolCallBadKey(sym)
  /\ UNCHANGED <<opts, stack, cache, now, llmCalls, result, pool, imp, plan, csv>>

EvaluateResolves ==
  /\ sym.pc = "ready"
  /\ \E i \in 1..Len(sym.flight), metrics \in MetricValues :
       sym' = evaluateResolved(sym, i, metrics)
  /\ UNCHANGED <<opts, stack, cache, now, llmCalls, result, pool, imp, plan, csv>>

EvaluateRejects ==
  /\ sym.pc = "ready"
  /\ \E i \in 1..Len(sym.flight) : sym' = evaluateRejected(sym, i)
  /\ UNCHANGED <<opts, stack, cache, now, llmCalls, result, pool, imp, plan, csv>>

SymbolNext ==
  \/ SymbolCall
  \/ SymbolCallBadKey
  \/ EvaluateResolves
  \/ EvaluateRejects

SymbolSpec == SymbolInit /\ [][SymbolNext]_vars

(***************************************************************************)
(* doc/DocumentStore.ts: parseCsv.  A cell is the sequence of its          *)
(* characters, trimmed; the rows are those of the lines that are not       *)
(* empty.  Of the characters, "1" is a digit, "a" a letter and "$" neither *)
(* a letter, a digit, "_" nor "-"; a number is written with digits and a   *)
(* leading "-".                                                            *)
(***************************************************************************)
IsDigits(cell) == Len(cell) > 0 /\ \A i \in 1..Len(cell) : cell[i] = "1"

\* Number.isFinite(Number(input.trim())) of a cell that is not empty
looksNumeric(cell) ==
  /\ Len(cell) > 0
  /\ \/ IsDigits(cell)
     \/ cell[1] = "-" /\ IsDigits(Tail(cell))

\* /^[\p{L}_][\p{L}\p{N}_-]*$/u of a cell that is neither empty nor numeric
isLikelyHeaderCell(cell) ==
  /\ Len(cell) > 0
  /\ ~looksNumeric(cell)
  /\ cell[1] \in {"a", "_"}
  /\ \A i \in 2..Len(cell) : cell[i] \in {"a", "1", "_", "-"}

\* `col${index}`
syntheticHeader(index) == <<"c", "o", "l", <<"0", "1", "2">>[index + 1]>>

\* a parser that asks for both hints
parseCsvBothHints(rows) ==
  LET hasSecond == Len(rows) >= 2
      hasHeader ==
        /\ hasSecond
        /\ \E index \in 1..Len(rows[1]) :
             /\ index <= Len(rows[2])
             /\ ~looksNumeric(rows[1][index])
             /\ looksNumeric(rows[2][index])
        /\ \A index \in 1..Len(rows[1]) : isLikelyHeaderCell(rows[1][index])
  IN [hasHeader |-> hasHeader,
      headers |-> IF hasHeader THEN rows[1]
                  ELSE IF rows = <<>> THEN <<>>
                  ELSE [index \in 1..Len(rows[1]) |-> syntheticHeader(index - 1)],
      rows |-> IF hasHeader THEN Tail(rows) ELSE rows]

\* parseCsv from the rows: the two hints, the headers, the data rows
parseCsv(rows) ==
  LET hasSecond == Len(rows) >= 2
      hasHeaderByNumericHint ==
        /\ hasSecond
        /\ \E index \in 1..Len(rows[1]) :
             /\ index <= Len(rows[2])
             /\ ~looksNumeric(rows[1][index])
             /\ looksNumeric(rows[2][index])
      hasHeaderByNameHint ==
        /\ hasSecond
        /\ Len(rows[1]) > 0
        /\ \A index \in 1..Len(rows[1]) : isLikelyHeaderCell(rows[1][index])
      hasHeader == hasHeaderByNumericHint \/ hasHeaderByNameHint
  IN [hasHeader |-> hasHeader,
      headers |-> IF hasHeader THEN rows[1]
                  ELSE IF rows = <<>> THEN <<>>
                  ELSE [index \in 1..Len(rows[1]) |-> syntheticHeader(index - 1)],
      rows |-> IF hasHeader THEN Tail(rows) ELSE rows]

\* the cells of the documents parsed
CsvCells ==
  { <<>>, <<"1">>, <<"-", "1">>, <<"a">>, <<"a", "1">>, <<"_">>, <<"$">>, <<"1", "a">> }

\* the rows a line splits into: one cell that is not empty, or two cells
CsvRows ==
  { <<cell>> : cell \in CsvCells \ {<<>>} }
    \cup { <<left, right>> : left \in CsvCells, right \in CsvCells }

\* parseCsv(prompt, delimiter) up to the rows
CsvInit ==
  /\ opts = ScriptedConfig
  /\ stack = <<>>
  /\ cache = <<>>
  /\ now = 0
  /\ llmCalls = 0
  /\ result = Running
  /\ pool = NoPool
  /\ imp = NoImp
  /\ plan = NotCalled
  /\ sym = NotCalled
  /\ \/ csv = [pc |-> "rows", rows |-> <<>>]
     \/ \E first \in CsvRows : csv = [pc |-> "rows", rows |-> <<first>>]
     \/ \E first \in CsvRows, second \in CsvRows :
          csv = [pc |-> "rows", rows |-> <<first, second>>]

ParseCsv ==
  /\ csv.pc = "rows"
  /\ csv' = [pc |-> "parsed", rows |-> csv.rows, doc |-> parseCsv(csv.rows)]
  /\ UNCHANGED <<opts, stack, cache, now, llmCalls, result, pool, imp, plan, sym>>

CsvSpec == CsvInit /\ [][ParseCsv]_vars

(***************************************************************************)
(* planner/index.ts: createRLMPlan.  The text of the language model is     *)
(* "no_json" (parseOneJSON finds no JSON object in it), "broken" (the      *)
(* object found does not parse) or "object"; a field of the object is None *)
(* when it is absent or not of the type looked for.  Of a plan, the mode,  *)
(* the task, the symbols and the longRun objectives are kept.              *)
(***************************************************************************)
\* the strings whose trim() is empty
Blank == {"", " "}

pickString(input) == IF input # None /\ input[1] \notin Blank THEN input ELSE None

makeDefaultSinglePlan(task, availableSymbols) ==
  [kind |-> "rlm_plan", version |-> 1, mode |-> "single", task |-> task,
   symbols |-> IF Len(availableSymbols) > 0 THEN Some(availableSymbols) ELSE None,
   longRun |-> None]

\* coerceLongRunSpec, the loop over objectivesRaw: the rows kept
validObjectives(objectivesRaw) ==
  SelectSeq(objectivesRaw,
            LAMBDA row : /\ row.isRecord
                         /\ pickString(row.key) # None
                         /\ row.direction \in {Some("minimize"), Some("maximize")}
                         /\ pickString(row.symbol) # None)

\* None, or Some(the longRun spec)
coerceLongRunSpec(input) ==
  IF ~input.isRecord THEN None
  ELSE IF ~input.isArray \/ Len(input.objectives) = 0 THEN None
  ELSE IF Len(validObjectives(input.objectives)) = 0 THEN None
  ELSE Some([objectives |-> validObjectives(input.objectives)])

coercePlannerPlanKeepingMode(raw, fallbackTask, availableSymbols) ==
  IF raw.k # "object" THEN makeDefaultSinglePlan(fallbackTask, availableSymbols)
  ELSE [kind |-> "rlm_plan", version |-> 1,
        mode |-> IF raw.mode = Some("long_run") THEN "long_run" ELSE "single",
        task |-> Or(pickString(raw.task), fallbackTask),
        symbols |-> IF Len(availableSymbols) > 0 THEN Some(availableSymbols) ELSE None,
        longRun |-> IF raw.mode = Some("long_run")
                      THEN coerceLongRunSpec(raw.longRun) ELSE None]

coercePlannerPlan(raw, fallbackTask, availableSymbols) ==
  IF raw.k # "object" THEN makeDefaultSinglePlan(fallbackTask, availableSymbols)
  ELSE LET task == Or(pickString(raw.task), fallbackTask)
           mode == IF raw.mode = Some("long_run") THEN "long_run" ELSE "single"
           longRun == coerceLongRunSpec(raw.longRun)
       IN [kind |-> "rlm_plan", version |-> 1,
           mode |-> IF mode = "long_run" /\ longRun = None THEN "single" ELSE mode,
           task |-> task,
           symbols |-> IF Len(availableSymbols) > 0 THEN Some(availableSymbols)
                       ELSE None,
           longRun |-> IF mode = "long_run" THEN longRun ELSE None]

\* the rows an objectives array may hold
ObjectiveRow(isRecord, key, direction, symbol) ==
  [isRecord |-> isRecord, key |-> key, direction |-> direction, symbol |-> symbol]
GoodRow == ObjectiveRow(TRUE, Some("k"), Some("minimize"), Some("m"))
BadRows ==
  { ObjectiveRow(FALSE, None, None, None),
    ObjectiveRow(TRUE, Some(" "), Some("maximize"), Some("m")),
    ObjectiveRow(TRUE, Some("k"), Some("up"), Some("m")),
    ObjectiveRow(TRUE, Some("k"), Some("maximize"), None) }

LongRunRaw(isRecord, isArray, objectives) ==
  [isRecord |-> isRecord, isArray |-> isArray, objectives |-> objectives]

\* what the field longRun of the answer may be
LongRunRaws ==
  { LongRunRaw(FALSE, FALSE, <<>>),
    LongRunRaw(TRUE, FALSE, <<>>),
    LongRunRaw(TRUE, TRUE, <<>>),
    LongRunRaw(TRUE, TRUE, <<GoodRow>>) }
    \cup { LongRunRaw(TRUE, TRUE, <<bad>>) : bad \in BadRows }
    \cup { LongRunRaw(TRUE, TRUE, <<bad, GoodRow>>) : bad \in BadRows }

\* what the language model may answer
PlannerTexts ==
  { [k |-> kind, task |-> None, mode |-> None, longRun |-> LongRunRaw(FALSE, FALSE, <<>>)] :
      kind \in {"no_json", "broken"} }
    \cup { [k |-> "object", task |-> task, mode |-> mode, longRun |-> longRun] :
             task \in {None, Some(" "), Some("T")},
             mode \in {None, Some("single"), Some("long_run"), Some("auto")},
             longRun \in LongRunRaws }

\* createRLMPlan({input, prompt, llm, availableSymbols}) up to llm.complete
PlanInit ==
  /\ opts = ScriptedConfig
  /\ stack = <<>>
  /\ cache = <<>>
  /\ now = 0
  /\ llmCalls = 0
  /\ result = Running
  /\ pool = NoPool
  /\ imp = NoImp
  /\ sym = NotCalled
  /\ csv = NotCalled
  /\ \E availableSymbols \in {<<>>, <<"m">>} :
       plan = [pc |-> "await_llm", input |-> "U",
               availableSymbols |-> availableSymbols]

\* llm.complete resolves: parse, coerce, or the default plan when either throws
PlanAnswered ==
  /\ plan.pc = "await_llm"
  /\ \E text \in PlannerTexts :
       plan' = [pc |-> "returned", input |-> plan.input,
                availableSymbols |-> plan.availableSymbols, text |-> text,
                out |-> IF text.k # "object"
                          THEN makeDefaultSinglePlan(plan.input, plan.availableSymbols)
                        ELSE coercePlannerPlan(text, plan.input, plan.availableSymbols)]
  /\ UNCHANGED <<opts, stack, cache, now, llmCalls, result, pool, imp, sym, csv>>

\* llm.complete rejects: createRLMPlan rejects with it
PlanRejected ==
  /\ plan.pc = "await_llm"
  /\ plan' = [plan EXCEPT !.pc = "threw"]
  /\ UNCHANGED <<opts, stack, cache, now, llmCalls, result, pool, imp, sym, csv>>

PlanNext ==
  \/ PlanAnswered
  \/ PlanRejected

PlanSpec == PlanInit /\ [][PlanNext]_vars

\* calls whose budgets end them within the requests followed: two steps and
\* one sub-call for the root, one step and no sub-call for a child
LiveConfigs ==
  { Config(p, Limits(Some(2), Some(1), None, None, None),
           Some(Limits(Some(1), Some(0), None, None, None)), t, "memory", pr) :
      p \in Prompts, t \in Tasks, pr \in {PureProfile, HybridProfile} }

LiveInit ==
  /\ opts \in LiveConfigs
  /\ stack = <<initEnv(opts.prompt, 0, opts.budget, opts.task, 0)>>
  /\ cache = <<>>
  /\ now = 0
  /\ llmCalls = 0
  /\ result = Running
  /\ pool = NoPool
  /\ imp = NoImp
  /\ plan = NotCalled
  /\ sym = NotCalled
  /\ csv = NotCalled

\* every awaited promise settles (the language model answers, the document
\* store answers) and the event loop then runs the continuation
LiveSpec == LiveInit /\ [][Next]_vars /\ WF_vars(Next)

(***************************************************************************)
(* The properties.                                                         *)
(***************************************************************************)
Frames == DOMAIN stack

\* the messages of an environment are handed to the language model
AtModel(env) == env.pc = "await_llm"

\* C1 (privacy): in no environment, root or child, does a message handed to
\* the language model contain the body of that environment's prompt.
C1_PromptNeverInMessages ==
  \A i \in Frames :
    AtModel(stack[i]) =>
      \A m \in DOMAIN stack[i].history :
        ~Includes(stack[i].history[m].text, stack[i].prompt)

\* the call of frame i ends, in this step, by throwing BudgetExceeded of that
\* kind: the root's promise rejects, a child's rejection reaches its parent
FailsWith(i, kind) ==
  IF i = 1
  THEN result'.status = "threw" /\ result'.kind = kind
  ELSE /\ Len(stack') = i - 1
       /\ stack'[i - 1].res.err = "BudgetExceeded"
       /\ stack'[i - 1].res.kind = kind

\* the environment on top is about to attempt a turn with its steps used up
TurnAtStepLimit ==
  /\ top.pc = "loop"
  /\ top.final.t = "undef"
  /\ top.budget.stepsUsed = top.budget.maxSteps

StepsWithinLimit ==
  \A i \in Frames : stack[i].budget.stepsUsed <= stack[i].budget.maxSteps

\* C2 as stated: stepsUsed <= maxSteps in every environment, and a turn
\* attempted at stepsUsed = maxSteps makes the call fail with BudgetExceeded
\* of kind maxSteps, with no language-model call and stepsUsed unchanged.
C2_StepLimitAlwaysMaxSteps ==
  /\ []StepsWithinLimit
  /\ [][TurnAtStepLimit =>
          /\ FailsWith(Len(stack), "maxSteps")
          /\ llmCalls' = llmCalls
          /\ Len(stack') = Len(stack) =>
               top'.budget.stepsUsed = top.budget.stepsUsed]_vars

\* C2 amended: stepsUsed <= maxSteps in every environment, and a turn
\* attempted at stepsUsed = maxSteps makes the call fail with BudgetExceeded,
\* of kind maxTimeMs when the elapsed time already exceeds maxTimeMs and of
\* kind maxSteps otherwise, with no language-model call and stepsUsed unchanged.
C2_StepLimit ==
  /\ []StepsWithinLimit
  /\ [][TurnAtStepLimit =>
          /\ FailsWith(Len(stack),
                       IF now - top.budget.startedAt > top.budget.maxTimeMs
                       THEN "maxTimeMs" ELSE "maxSteps")
          /\ llmCalls' = llmCalls
          /\ Len(stack') = Len(stack) =>
               top'.budget.stepsUsed = top.budget.stepsUsed]_vars

\* a root call that failed on its step limit, every step used
C2_Witness ==
  /\ result.status = "threw"
  /\ result.kind = "maxSteps"
  /\ stack[1].budget.stepsUsed = stack[1].budget.maxSteps
  /\ llmCalls = stack[1].budget.maxSteps

\* a BudgetExceeded of that kind ended a turn of the environment as an error
\* turn: the loop recorded it in a root_step event and went on
SwallowedBreach(env, kind) ==
  \E j \in DOMAIN env.trace :
    env.trace[j].t = "root_step" /\ env.trace[j].err = kind

\* C3: subCallsUsed <= maxSubCalls in every environment, and a root call in
\* which a sub_map attempts a sub-call that is not cached when subCallsUsed =
\* maxSubCalls ends by throwing BudgetExceeded of kind maxSubCalls.
C3_SubCallLimitEndsCall ==
  /\ \A i \in Frames : stack[i].budget.subCallsUsed <= stack[i].budget.maxSubCalls
  /\ (result.status # "running" /\ SwallowedBreach(stack[1], "maxSubCalls"))
       => (result.status = "threw" /\ result.kind = "maxSubCalls")

\* C4: a breach of the environment's own maxPromptReadChars or maxDepth by an
\* action is fatal for it: no environment goes on to another language-model
\* call after such a breach was turned into an error turn.
C4_ActionBreachIsFatal ==
  \A i \in Frames :
    AtModel(stack[i]) =>
      /\ ~SwallowedBreach(stack[i], "maxPromptReadChars")
      /\ ~SwallowedBreach(stack[i], "maxDepth")

\* a sub_map is about to make its next sub-call
SubCallDue == top.pc = "sub_map" /\ top.sub.i < Len(top.sub.items)

\* C5: a sub-call whose fingerprint is already in the cache returns the cached
\* value, appends exactly one sub_call event with cached = true, leaves
\* subCallsUsed unchanged, spawns no child and makes no language-model call.
C5_CacheHit ==
  [][(SubCallDue /\ NextKey(top) \in DOMAIN cache) =>
       /\ Len(stack') = Len(stack)
       /\ top'.sub.out = Append(top.sub.out, cache[NextKey(top)])
       /\ Len(top'.trace) = Len(top.trace) + 1
       /\ SubSeq(top'.trace, 1, Len(top.trace)) = top.trace
       /\ top'.trace[Len(top'.trace)].t = "sub_call"
       /\ top'.trace[Len(top'.trace)].cached
       /\ top'.budget.subCallsUsed = top.budget.subCallsUsed
       /\ llmCalls' = llmCalls
       /\ cache' = cache]_vars

\* the root's sub_map answered a sub-call from the cache
C5_Witness ==
  /\ stack[1].budget.subCallsUsed = 1
  /\ \E j \in DOMAIN stack[1].trace :
       stack[1].trace[j].t = "sub_call" /\ stack[1].trace[j].cached

\* C6: every environment has depth <= maxDepth, and a sub-call miss issued at
\* depth = maxDepth fails with BudgetExceeded(maxDepth) before any child is
\* constructed, with subCallsUsed not incremented and the cache not written.
C6_DepthLimit ==
  /\ [](\A i \in Frames : stack[i].budget.depth <= stack[i].budget.maxDepth)
  /\ [][(/\ SubCallDue
         /\ NextKey(top) \notin DOMAIN cache
         /\ top.budget.depth = top.budget.maxDepth) =>
          /\ Len(stack') = Len(stack)
          /\ top'.res.err = "BudgetExceeded"
          /\ top'.res.kind = "maxDepth"
          /\ top'.budget.subCallsUsed = top.budget.subCallsUsed
          /\ cache' = cache]_vars

\* a sub-call was refused at the depth limit
C6_Witness ==
  /\ top.pc = "exec_done"
  /\ top.res.kind = "maxDepth"
  /\ top.budget.depth = top.budget.maxDepth
  /\ top.budget.subCallsUsed = 0
  /\ Len(stack) = 1

\* C7: the time budget is shared from the root's clock: every child
\* environment has the startedAt of its parent.
C7_SharedStartedAt ==
  \A i \in Frames :
    i > 1 => stack[i].budget.startedAt = stack[i - 1].budget.startedAt

\* C8: every child environment starts with stepsUsed = subCallsUsed =
\* promptReadCharsUsed = 0, depth = parent.depth + 1 and the parent's
\* maxDepth; its other limits are those of subBudget, else the defaults
\* (sub_map passes no per-call budget).
C8_ChildBudget ==
  [][Len(stack') = Len(stack) + 1 =>
       LET child == stack'[Len(stack')].budget
           parent == top.budget
           own == IF opts.subBudget = None THEN NoOverride ELSE opts.subBudget[1]
       IN /\ child.stepsUsed = 0
          /\ child.subCallsUsed = 0
          /\ child.promptReadCharsUsed = 0
          /\ child.depth = parent.depth + 1
          /\ child.maxDepth = parent.maxDepth
          /\ child.maxSteps =
               IF own.maxSteps = None THEN DefaultMaxSteps ELSE own.maxSteps[1]
          /\ child.maxSubCalls =
               IF own.maxSubCalls = None THEN DefaultMaxSubCalls ELSE own.maxSubCalls[1]
          /\ child.maxPromptReadChars =
               IF own.maxPromptReadChars = None THEN DefaultMaxPromptReadChars
               ELSE own.maxPromptReadChars[1]
          /\ child.maxTimeMs =
               IF own.maxTimeMs = None THEN DefaultMaxTimeMs ELSE own.maxTimeMs[1]]_vars

\* a child of a call with a sub-budget is waiting for its first turn
C8_Witness ==
  /\ Len(stack) = 2
  /\ opts.subBudget # None
  /\ top.pc = "loop"
  /\ top.budget.stepsUsed = 0
  /\ top.budget.maxSteps = 1

\* C9: once the final of an environment is set it never changes for the
\* remainder of that environment.
C9_FinalImmutable ==
  [][\A i \in Frames :
       (stack[i].final.t # "undef" /\ i <= Len(stack')) =>
         stack'[i].final = stack[i].final]_vars

\* the call of frame i returns, in this step, that final (the heuristic
\* post-processing of the hybrid profile may replace it on the way out)
ReturnsFinal(i, final) ==
  IF i = 1
  THEN /\ result'.status = "returned"
       /\ ~opts.enableHeuristicPostprocess => result'.final = final
       /\ stack'[1].trace = stack[1].trace
       /\ stack'[1].budget = stack[1].budget
  ELSE /\ Len(stack') = i - 1
       /\ stack'[i - 1].pc = "sub_map"
       /\ Len(stack'[i - 1].sub.out) = Len(stack[i - 1].sub.out) + 1
       /\ ~opts.enableHeuristicPostprocess =>
            stack'[i - 1].sub.out[Len(stack'[i - 1].sub.out)] = final

\* C10: when an action sets the final of an environment its loop ends: the
\* environment consumes no further step, no language-model call follows, and
\* its call returns {final, trace, budget}.
C10_FinalEndsLoop ==
  [][\A i \in Frames :
       stack[i].final.t # "undef" =>
         /\ llmCalls' = llmCalls
         /\ IF stack[i].pc = "loop"
            THEN ReturnsFinal(i, stack[i].final.s)
            ELSE /\ i <= Len(stack')
                 /\ stack'[i].budget.stepsUsed = stack[i].budget.stepsUsed
                 /\ stack'[i].pc \in {"loop", "returned"}]_vars

\* the root returned the final that a set action wrote, one step per reply
C10_Witness ==
  /\ result.status = "returned"
  /\ result.final = <<"f">>
  /\ stack[1].final = Str(<<"f">>)
  /\ stack[1].budget.stepsUsed = llmCalls

\* the number of root_step events of an environment: its observed turns
RootSteps(env) ==
  Cardinality({j \in DOMAIN env.trace : env.trace[j].t = "root_step"})

\* a turn of the environment on top failed with an ordinary error (no JSON
\* object, a coercion failure, an unknown op, an error of the action)
RecoverableFailure == top.pc = "exec_done" /\ top.res.err = "Error"

\* C12: a recoverable failure of a turn does not end the loop: exactly one
\* rlm_error user turn is appended, the turn still costs its step (every
\* observed turn, failed or not, is one step), final stays unset unless the
\* heuristic fallback fires, and the loop is ready for the next turn.
C12_RecoverableFailure ==
  /\ [](\A i \in Frames :
          stack[i].pc = "loop" => RootSteps(stack[i]) = stack[i].budget.stepsUsed)
  /\ [][RecoverableFailure =>
          /\ Len(stack') = Len(stack)
          /\ result' = result
          /\ top'.pc = "loop"
          /\ Len(top'.history) = Len(top.history) + 1
          /\ SubSeq(top'.history, 1, Len(top.history)) = top.history
          /\ top'.history[Len(top'.history)].kind = "rlm_error"
          /\ top'.history[Len(top'.history)].role = "user"
          /\ top'.budget = top.budget
          /\ top'.scratch = top.scratch
          /\ top'.final.t # "undef" =>
               (opts.enableEarlyStopHeuristic /\ top'.consecutiveErrors >= 2)]_vars

\* the root returned the final of a set action after an earlier failed turn
C12_Witness ==
  /\ result.status = "returned"
  /\ result.final = <<"f">>
  /\ \E j \in DOMAIN stack[1].trace :
       /\ stack[1].trace[j].t = "root_step"
       /\ stack[1].trace[j].err = "No JSON object found in LLM output"
  /\ \E m \in DOMAIN stack[1].history : stack[1].history[m].kind = "rlm_error"

\* the scratch entries other than that key are the same in both
SameExceptAt(before, after, key) ==
  /\ DOMAIN before \subseteq DOMAIN after
  /\ DOMAIN after \subseteq DOMAIN before \cup {key}
  /\ \A k \in DOMAIN before \ {key} : after[k] = before[k]

\* C16: running a child leaves the parent's stepsUsed and promptReadCharsUsed
\* unchanged and raises its subCallsUsed by exactly 1 per cache miss; the
\* child starts with an empty scratch, and the parent's scratch changes only
\* at the out key of the sub_map.
C16_ChildLeavesParent ==
  [][/\ \A i \in Frames :
          (i < Len(stack) /\ i < Len(stack')) => stack'[i] = stack[i]
     /\ Len(stack') = Len(stack) + 1 =>
          /\ stack'[Len(stack')].scratch = <<>>
          /\ stack'[Len(stack)].scratch = top.scratch
          /\ stack'[Len(stack)].budget =
               [top.budget EXCEPT !.subCallsUsed = top.budget.subCallsUsed + 1]
     /\ Len(stack') = Len(stack) - 1 =>
          /\ stack'[Len(stack')].scratch = stack[Len(stack')].scratch
          /\ stack'[Len(stack')].budget = stack[Len(stack')].budget
     /\ (top.pc = "sub_map" /\ Len(stack') = Len(stack)) =>
          /\ SameExceptAt(top.scratch, top'.scratch, top.dsl.out)
          /\ top'.budget = top.budget]_vars

\* a sub_map of the root over two items ran one child and took one result
\* from the cache, and stored the results next to the chunks
C16_Witness ==
  /\ Len(stack) = 1
  /\ top.pc = "exec_done"
  /\ top.dsl.op = "sub_map"
  /\ top.budget.subCallsUsed = 1
  /\ DOMAIN top.scratch = {"chunks", "mapped"}
  /\ Len(top.scratch["mapped"].a) = 2

\* C17: with requirePromptReadBeforeFinalize on, a finalize executed while
\* promptReadCharsUsed = 0 fails with 'must read prompt before finalize' as an
\* ordinary (recoverable) error and leaves final unset and scratch unchanged.
C17_FinalizeNeedsRead ==
  [][(/\ top.pc = "await_llm"
      /\ Len(stack') = Len(stack)
      /\ top'.dsl.op = "finalize"
      /\ opts.requirePromptReadBeforeFinalize
      /\ top.budget.promptReadCharsUsed = 0) =>
       /\ top'.pc = "exec_done"
       /\ top'.res.err = "Error"
       /\ top'.res.msg = "must read prompt before finalize"
       /\ top'.final.t = "undef"
       /\ top'.scratch = top.scratch]_vars

\* a finalize of an answer that is in scratch was refused for want of a read
C17_Witness ==
  /\ top.pc = "exec_done"
  /\ top.dsl.op = "finalize"
  /\ top.res.msg = "must read prompt before finalize"
  /\ "answer" \in DOMAIN top.scratch
  /\ top.budget.promptReadCharsUsed = 0

\* the failed turns of an environment since its last successful one
FailedSinceSuccess(env) ==
  LET steps == {j \in DOMAIN env.trace : env.trace[j].t = "root_step"}
      ok == {j \in steps : env.trace[j].err = ""}
  IN Cardinality({j \in steps : \A k \in ok : k < j})

maxConsecutiveErrors ==
  Or(opts.maxConsecutiveErrorsForEarlyStop, DefaultMaxConsecutiveErrors)

\* C19: consecutiveErrors is the number of failed turns since the last
\* successful one (every success resets it to 0); a failed turn sets final
\* (the heuristic fallback) only with enableEarlyStopHeuristic on and
\* consecutiveErrors >= maxConsecutiveErrorsForEarlyStop (default 2), and
\* otherwise leaves final alone and continues the loop.
C19_ConsecutiveErrors ==
  /\ [](\A i \in Frames : stack[i].consecutiveErrors = FailedSinceSuccess(stack[i]))
  /\ [][(top.pc = "exec_done" /\ top.res.err # "") =>
          /\ Len(stack') = Len(stack)
          /\ top'.pc = "loop"
          /\ top'.consecutiveErrors = top.consecutiveErrors + 1
          /\ top'.final # top.final =>
               /\ opts.enableEarlyStopHeuristic
               /\ top'.consecutiveErrors >= maxConsecutiveErrors]_vars
  /\ [][(top.pc = "exec_done" /\ top.res.err = "") =>
          top'.consecutiveErrors = 0]_vars

\* the second failed turn in a row made the fallback answer the final
C19_Witness ==
  /\ Len(stack) = 1
  /\ top.pc = "loop"
  /\ top.consecutiveErrors = 2
  /\ top.budget.stepsUsed = 2
  /\ top.final.t = "str"
  /\ opts.enableEarlyStopHeuristic

\* the time of the environment has run out on that clock
Elapsed(env, clock) == timeExceeded(env.budget, clock)

\* the environment on top fails its next turn with that kind
TurnFailsWith(kind) ==
  IF Len(stack) = 1
  THEN result'.status = "threw" /\ result'.kind = kind
  ELSE /\ Len(stack') = Len(stack) - 1
       /\ top'.res.err = "BudgetExceeded"
       /\ top'.res.kind = kind

\* the sub-call that is due, a miss, fails with that kind
SubCallFailsWith(kind) ==
  /\ Len(stack') = Len(stack)
  /\ top'.pc = "exec_done"
  /\ top'.res.err = "BudgetExceeded"
  /\ top'.res.kind = kind

\* a read of the prompt by the environment on top is executed in this step
ReadExecuted(op) ==
  /\ top.pc = "await_llm"
  /\ Len(stack') = Len(stack)
  /\ top'.dsl.op = op

\* once the time of an environment has run out, its counters stay as they
\* are, its next turn fails with maxTimeMs and so does its next read
TimeFirstElsewhere ==
  /\ \A i \in Frames :
       (i <= Len(stack') /\ Elapsed(stack[i], now')) =>
          stack'[i].budget = stack[i].budget
  /\ (top.pc = "loop" /\ top.final.t = "undef" /\ Elapsed(top, now)) =>
       TurnFailsWith("maxTimeMs")
  /\ (ReadExecuted("slice_prompt") /\ Elapsed(top, now')) =>
       (top'.res.err = "BudgetExceeded" /\ top'.res.kind = "maxTimeMs")
  /\ (ReadExecuted("chunk_newlines") /\ Elapsed(top, now')) =>
       /\ top'.res.err # ""
       /\ top'.res.err = "BudgetExceeded" => top'.res.kind = "maxTimeMs"

\* C20 as stated: every budget check verifies the elapsed time first, so once
\* the time has run out the next check fails with maxTimeMs, whatever other
\* limit (step, sub-call, depth, char) is exceeded too.
C20_TimeAlwaysFirst ==
  [][/\ TimeFirstElsewhere
     /\ (SubCallDue /\ ~CacheHas(NextKey(top)) /\ Elapsed(top, now)) =>
          SubCallFailsWith("maxTimeMs")]_vars

\* C20: every accounting operation (consumeRootStep, consumeSubCall, a charge
\* of one or more prompt chars) verifies the elapsed time first: once the time
\* has run out it fails with maxTimeMs, whatever step, sub-call or char limit
\* is exceeded too, and no counter is incremented afterwards.  The depth check
\* looks at no clock and precedes consumeSubCall, so a sub-call miss at
\* depth + 1 > maxDepth fails with maxDepth even after the time has run out.
C20_TimeFirst ==
  [][/\ TimeFirstElsewhere
     /\ (SubCallDue /\ ~CacheHas(NextKey(top)) /\ Elapsed(top, now)) =>
          SubCallFailsWith(IF top.budget.depth + 1 > top.budget.maxDepth
                           THEN "maxDepth" ELSE "maxTimeMs")]_vars

\* a sub-call was refused for the time although depth and sub-calls were left
C20_Witness ==
  /\ top.pc = "exec_done"
  /\ top.dsl.op = "sub_map"
  /\ top.res.kind = "maxTimeMs"
  /\ top.budget.depth + 1 <= top.budget.maxDepth
  /\ top.budget.subCallsUsed = 0
  /\ Elapsed(top, now)

\* the positions in the key order of the task whose scratch value is a string
\* that is non-empty (blank == FALSE) or non-empty once trimmed (blank == TRUE)
HintPositions(env, trimmed) ==
  LET keys == orderedKeys(env.task)
  IN {j \in DOMAIN keys :
        /\ keys[j] \in DOMAIN env.scratch
        /\ env.scratch[keys[j]].t = "str"
        /\ (IF trimmed THEN Trim(env.scratch[keys[j]].s) ELSE env.scratch[keys[j]].s) # <<>>}

\* the scratch value at the first of those positions
FirstHintValue(env, trimmed) ==
  LET keys == orderedKeys(env.task)
      first == CHOOSE j \in HintPositions(env, trimmed) :
                 \A k \in HintPositions(env, trimmed) : j <= k
  IN env.scratch[keys[first]].s

\* the early stop is on and, where a read is required, one was accounted
EarlyStopArmed(env) ==
  /\ opts.enableEarlyStopHeuristic
  /\ opts.requirePromptReadBeforeFinalize => env.budget.promptReadCharsUsed > 0

\* a turn of the environment on top was executed without an error
TurnSucceeded == top.pc = "exec_done" /\ top.res.err = ""

\* no environment asks the language model once its final is set, and with
\* the early stop off a successful turn leaves final as the action left it
EarlyStopElsewhere ==
  /\ \A i \in Frames : stack[i].pc = "await_llm" => stack[i].final.t = "undef"
  /\ (TurnSucceeded /\ ~opts.enableEarlyStopHeuristic) => top'.final = top.final
  /\ (TurnSucceeded /\ ~EarlyStopArmed(top)) => top'.final = top.final

\* C18 as stated: with the early stop armed, after a successful action with a
\* non-empty string under some hint key, final is the first such value in the
\* key order of the task.
C18_EarlyStopVerbatim ==
  [][/\ EarlyStopElsewhere
     /\ (TurnSucceeded /\ EarlyStopArmed(top) /\ HintPositions(top, FALSE) # {}) =>
          /\ top'.final = Str(FirstHintValue(top, FALSE))
          /\ top'.pc = "loop"]_vars

\* C18: with the early stop armed, after a successful action with a string
\* that is non-empty once trimmed under some hint key, final becomes the first
\* such value in the key order of the task, trimmed and, when
\* enableHeuristicPostprocess is on, post-processed, and the loop exits
\* without another LM call; with the option off scratch never sets final.
C18_EarlyStop ==
  [][/\ EarlyStopElsewhere
     /\ (TurnSucceeded /\ EarlyStopArmed(top) /\ HintPositions(top, TRUE) # {}) =>
          /\ top'.final =
               Str(postprocessFinal(Trim(FirstHintValue(top, TRUE)), top.prompt,
                                    top.task, opts.enableHeuristicPostprocess))
          /\ top'.pc = "loop"
     /\ (TurnSucceeded /\ HintPositions(top, TRUE) = {}) => top'.final = top.final]_vars

\* with answer and picked both in scratch, the word task made the trimmed
\* value of picked, the first of its keys, the final after the read
C18_Witness ==
  /\ Len(stack) = 1
  /\ top.pc = "loop"
  /\ TaskHasWord(Or(top.task, <<>>))
  /\ ~opts.enableHeuristicPostprocess
  /\ {"answer", "picked"} \subseteq DOMAIN top.scratch
  /\ top.scratch["picked"] = Str(<<"NL", "p">>)
  /\ top.final = Str(<<"p">>)

\* the call has just begun: nothing was asked and nothing was executed
CallBegins ==
  /\ llmCalls = 0
  /\ Len(stack) = 1
  /\ top.pc = "loop"
  /\ top.budget.stepsUsed = 0

\* a child of the environment below it returns its final in this step
ChildReturns ==
  /\ Len(stack) > 1
  /\ top.pc = "loop"
  /\ top.final.t # "undef"

\* C15: all environments of one root call use the same cache, which is empty
\* when the call begins: the result of a child returning at any depth is
\* entered under the fingerprint of its sub-call (caller promptId, query,
\* sub-prompt, options), no entry is ever removed, and a sub-call due in any
\* environment whose fingerprint is in the cache is answered with the entry
\* and starts no child.
C15_SharedCache ==
  /\ [](CallBegins => cache = <<>>)
  /\ [][/\ DOMAIN cache \subseteq DOMAIN cache'
        /\ ChildReturns =>
             /\ NextKey(stack[Len(stack) - 1]) \in DOMAIN cache'
             /\ cache'[NextKey(stack[Len(stack) - 1])] = returnedFinal(top)
             /\ \A k \in DOMAIN cache \ {NextKey(stack[Len(stack) - 1])} :
                  cache'[k] = cache[k]
        /\ (SubCallDue /\ NextKey(top) \in DOMAIN cache) =>
             /\ Len(stack') = Len(stack)
             /\ top'.sub.i = top.sub.i + 1
             /\ top'.sub.out[top'.sub.i] = cache[NextKey(top)]]_vars

\* the root, none of whose own sub-calls has returned, has a sub-call answered
\* from the cache: the entry was put there by a sub-call of its child
C15_Witness ==
  /\ Len(stack) = 1
  /\ \E j \in DOMAIN top.trace :
       /\ top.trace[j].t = "sub_call"
       /\ top.trace[j].cached
       /\ top.trace[j].depth = 1
  /\ \A j \in DOMAIN top.trace :
       top.trace[j].t = "sub_call" => top.trace[j].cached
  /\ top.budget.subCallsUsed = 1

BudgetKinds == {"maxSteps", "maxSubCalls", "maxDepth", "maxPromptReadChars", "maxTimeMs"}

\* the root call is over: it returned its result or it threw
Terminated == result.status # "running"

\* C11: every language-model call returning, a root call eventually ends, in
\* exactly one of two ways: it returns with env.final set, or it throws
\* BudgetExceeded; nothing happens after that, and no environment has more
\* than maxSteps turns.
C11_Terminates ==
  /\ <>Terminated
  /\ [](Terminated =>
          \/ /\ result.status = "returned"
             /\ stack[1].final.t # "undef"
             /\ stack[1].pc = "returned"
          \/ /\ result.status = "threw"
             /\ result.kind \in BudgetKinds
             /\ stack[1].pc = "failed")
  /\ [](\A i \in Frames :
          /\ RootSteps(stack[i]) <= stack[i].budget.maxSteps
          /\ stack[i].budget.stepsUsed <= stack[i].budget.maxSteps)
  /\ [][Terminated => UNCHANGED vars]_vars

\* the root threw for its steps after two turns that set no final
C11_Witness ==
  /\ result.status = "threw"
  /\ result.kind = "maxSteps"
  /\ RootSteps(stack[1]) = 2
  /\ stack[1].budget.maxSteps = 2
  /\ stack[1].final.t = "undef"

\* the sub-calls of this execution of the sub_map that have returned
Returned == {j \in DOMAIN pool.log : pool.log[j].round = pool.round}

\* what the sub-call for item i of this execution returned
ReturnedFor(i) ==
  pool.log[CHOOSE j \in Returned : pool.log[j].i = i].value

\* C13: a sub_map with concurrency = n never has more than n sub-calls in
\* flight, and whatever the order in which the sub-calls return, the array
\* stored under scratch[out] has the result of the sub-call for item i at
\* position i.
C13_BoundedAndOrdered ==
  /\ Cardinality(pool.flight) <= pool.n
  /\ pool.phase = "done" =>
       /\ top.scratch[top.dsl.out].t = "arr"
       /\ Len(top.scratch[top.dsl.out].a) = Len(pool.items)
       /\ \A i \in 1..Len(pool.items) :
            /\ \E j \in Returned : pool.log[j].i = i
            /\ top.scratch[top.dsl.out].a[i] = ReturnedFor(i)

\* two sub-calls were in flight together, the second returned first and with
\* another result, and the array has them in the order of the items
C13_Witness ==
  /\ pool.phase = "done"
  /\ pool.n = 2
  /\ Len(pool.items) = 3
  /\ \E j, k \in Returned :
       /\ j < k
       /\ pool.log[j].i = 2 /\ pool.log[k].i = 1
       /\ ~pool.log[j].cached /\ ~pool.log[k].cached
       /\ pool.log[j].value = <<"f">> /\ pool.log[k].value = <<"k">>
  /\ top.scratch[top.dsl.out].a[1] = <<"k">>
  /\ top.scratch[top.dsl.out].a[2] = <<"f">>

\* the computations of that fingerprint that have returned, in order
Computed(key) ==
  {j \in DOMAIN pool.log : pool.log[j].key = key /\ ~pool.log[j].cached}

\* C14: of sub-calls with one fingerprint issued side by side the computation
\* runs at least once; when all have returned the cache holds one value for
\* the fingerprint, that of the computation that returned last; and a
\* sub-call with a fingerprint whose computation has returned is a cache hit.
C14_ConcurrentFingerprint ==
  /\ [](pool.phase = "done" =>
          \A i \in 1..Len(pool.items) :
            /\ Computed(PoolKey(i)) # {}
            /\ PoolKey(i) \in DOMAIN cache
            /\ \E j \in Computed(PoolKey(i)) :
                 /\ \A k \in Computed(PoolKey(i)) : k <= j
                 /\ cache[PoolKey(i)] = pool.log[j].value)
  /\ [](\A i \in 1..Len(pool.items) :
          Computed(PoolKey(i)) # {} => PoolKey(i) \in DOMAIN cache)
  /\ [][(/\ WorkerFree
         /\ pool'.next = pool.next + 1
         /\ Computed(PoolKey(pool.next + 1)) # {}) =>
          /\ pool'.phase = "running"
          /\ pool'.flight = pool.flight
          /\ pool'.slots[pool'.next] = Some(cache[PoolKey(pool'.next)])
          /\ top'.budget = top.budget
          /\ cache' = cache]_vars

\* two sub-calls with one fingerprint were in flight together and returned
\* different results; the cache has the later one, and the sub_map executed
\* again got it as a hit
C14_Witness ==
  /\ pool.round = 2
  /\ pool.phase = "done"
  /\ pool.items = << <<"X">>, <<"X">> >>
  /\ Cardinality(Computed(PoolKey(1))) = 2
  /\ \E j, k \in Computed(PoolKey(1)) :
       j < k /\ pool.log[j].value = <<"k">> /\ pool.log[k].value = <<"f">>
  /\ cache[PoolKey(1)] = <<"f">>
  /\ \E j \in Returned : pool.log[j].cached /\ pool.log[j].value = <<"f">>

\* the environments that are there before and after the step
Staying == {i \in Frames : i <= Len(stack')}

\* the step is a budget operation of the environment on top that throws
\* BudgetExceeded: a turn refused, a sub-call refused, a read refused
BudgetRefusal ==
  \/ /\ top.pc = "loop"
     /\ top.final.t = "undef"
     /\ (result'.status = "threw" \/ Len(stack') < Len(stack))
  \/ /\ top.pc \in {"sub_map", "await_llm"}
     /\ Len(stack') = Len(stack)
     /\ top'.pc = "exec_done"
     /\ top'.res.err = "BudgetExceeded"

\* C21: stepsUsed, subCallsUsed and promptReadCharsUsed of an environment
\* never decrease, and a budget operation that fails with BudgetExceeded
\* leaves all of them unchanged.
C21_CountersMonotone ==
  [][/\ \A i \in Staying :
          /\ stack'[i].budget.stepsUsed >= stack[i].budget.stepsUsed
          /\ stack'[i].budget.subCallsUsed >= stack[i].budget.subCallsUsed
          /\ stack'[i].budget.promptReadCharsUsed >= stack[i].budget.promptReadCharsUsed
     /\ BudgetRefusal =>
          \A i \in Staying : stack'[i].budget = stack[i].budget]_vars

\* a read of three chars was refused at two chars read of two allowed
C21_Witness ==
  /\ top.pc = "exec_done"
  /\ top.res.err = "BudgetExceeded"
  /\ top.res.kind = "maxPromptReadChars"
  /\ top.budget.promptReadCharsUsed = 2
  /\ top.budget.maxPromptReadChars = 2

\* the trace after the step begins with the trace before it
Extends(after, before) ==
  /\ Len(after) >= Len(before)
  /\ SubSeq(after, 1, Len(before)) = before

\* C22: the trace of an environment is append-only (no event is removed,
\* reordered or rewritten), and a child's events never enter the trace of its
\* parent: when a child returns the parent's trace grows by one sub_call
\* event, and when a child throws it does not grow.
C22_TraceAppendOnly ==
  [][/\ \A i \in Staying : Extends(stack'[i].trace, stack[i].trace)
     /\ Len(stack') < Len(stack) =>
          LET before == stack[Len(stack')].trace
              after == stack'[Len(stack')].trace
          IN IF top.final.t # "undef"
             THEN /\ Len(after) = Len(before) + 1
                  /\ after[Len(after)].t = "sub_call"
                  /\ ~after[Len(after)].cached
             ELSE after = before
     /\ Len(stack') > Len(stack) => stack'[Len(stack')].trace = <<>>]_vars

\* a child that had a turn of its own returned, and the root's trace holds
\* the two events of its first turn, the one sub_call event and nothing of
\* the child
C22_Witness ==
  /\ Len(stack) = 1
  /\ top.pc = "sub_map"
  /\ llmCalls = 3
  /\ top.budget.stepsUsed = 2
  /\ Len(top.trace) = 3
  /\ top.trace[3].t = "sub_call"
  /\ ~top.trace[3].cached

\* the step obtained the whole document from the store (readPromptAll went
\* to the store and kept what it got)
WholeRead == top'.promptCache /\ ~top.promptCache

\* the step obtained a slice of the document from the store
SliceRead ==
  /\ top'.dsl.op = "slice_prompt"
  /\ top'.res.err = ""
  /\ ~top.promptCache

\* C23: every action that obtains document text from the store charges it,
\* whichever backend serves the read: a whole-document read adds
\* prompt.length to promptReadCharsUsed, a slice adds end - start, and no
\* action reads the store without accounting.
C23_ReadsAccounted ==
  [][/\ (WholeRead /\ top'.res.err # "BudgetExceeded") =>
          top'.budget.promptReadCharsUsed =
            top.budget.promptReadCharsUsed + Len(top.prompt)
     /\ SliceRead =>
          top'.budget.promptReadCharsUsed =
            top.budget.promptReadCharsUsed
              + (Max(Max(0, top'.dsl.start), top'.dsl.end) - Max(0, top'.dsl.start))]_vars

(***************************************************************************)
(* The improvement loop.                                                   *)
(***************************************************************************)
\* the step records the result of one candidate
Judged ==
  /\ imp.pc = "evaluate"
  /\ imp'.pc = "evaluate"
  /\ Len(imp'.results) = Len(imp.results) + 1

\* the result the step records
NewRow == imp'.results[Len(imp'.results)]

\* x comparator y, for integers
Holds(x, comparator, y) ==
  \/ comparator = "lt" /\ x < y
  \/ comparator = "lte" /\ x <= y
  \/ comparator = "gt" /\ x > y
  \/ comparator = "gte" /\ x >= y
  \/ comparator = "eq" /\ x = y

\* the sum over the objectives of (+value for maximize, -value for minimize)
\* times the weight, the weight 1 when none is given
LinearScore(snapshot, policy) ==
  LET term(o) == (IF o.direction = "maximize" THEN 1 ELSE 0 - 1)
                   * snapshot.metrics[o.key].n * (IF o.weight = None THEN 1 ELSE o.weight[1])
      sum[i \in 0..Len(policy.objectives)] ==
        IF i = 0 THEN 0 ELSE sum[i - 1] + term(policy.objectives[i])
  IN sum[Len(policy.objectives)]

\* the constraint c holds of the snapshot against a baseline whose metrics
\* are not negative: its metric is there, its target is defined and the
\* comparator holds (a quotient by b > 0 compares as its numerator does
\* with b times the value)
ConstraintMet(c, snapshot, baseline) ==
  LET m == snapshot.metrics[c.key]
      b == IF baseline.metrics[c.key].k = "num" THEN baseline.metrics[c.key].n ELSE 0
      source == IF c.source = None THEN "absolute" ELSE c.source[1]
  IN /\ m.k = "num"
     /\ \/ source = "absolute" /\ Holds(m.n, c.comparator, c.value)
        \/ source = "delta" /\ Holds(m.n - b, c.comparator, c.value)
        \/ source = "ratio" /\ b > 0 /\ Holds(m.n, c.comparator, c.value * b)
        \/ source = "delta_ratio" /\ b > 0 /\ Holds(m.n - b, c.comparator, c.value * b)

\* what the claim asks of an accepted candidate
Acceptable(row, policy, baseline, baselineScore) ==
  /\ row.error = None
  /\ row.snapshot # None
  /\ LET snapshot == row.snapshot[1]
     IN /\ \A i \in 1..Len(MetricKeys) : snapshot.metrics[MetricKeys[i]].k # "NaN"
        /\ \A i \in 1..Len(policy.objectives) :
             snapshot.metrics[policy.objectives[i].key].k = "num"
        /\ \A i \in 1..Len(policy.constraints) :
             ConstraintMet(policy.constraints[i], snapshot, baseline)
        /\ \A i \in 1..Len(snapshot.gates) : snapshot.gates[i].passed
        /\ LinearScore(snapshot, policy) - baselineScore
             >= (IF policy.minScoreDelta = None THEN 0 ELSE policy.minScoreDelta[1])

\* C24: runImprovementLoop accepts a candidate, with no reasons, exactly
\* when its evaluation did not throw, every metric of the snapshot is
\* finite, every objective metric is there, every constraint's metric is
\* there with a defined target that satisfies the comparator, every gate is
\* true and scoreDelta >= minScoreDelta (0 when none is given).
C24_AcceptedIff ==
  [][Judged =>
       /\ NewRow.accepted <=> NewRow.reasons = <<>>
       /\ NewRow.accepted <=>
            Acceptable(NewRow, imp.policy, imp.currentBaseline,
                       imp.currentBaselineScore)]_vars

\* a round with a constraint in which one candidate was accepted and
\* another refused on its score alone
C24_Witness ==
  /\ imp.pc = "evaluate"
  /\ imp.policy.constraints # <<>>
  /\ \E i, j \in 1..Len(imp.results) :
       /\ imp.results[i].accepted
       /\ imp.results[i].snapshot[1].gates # <<>>
       /\ imp.results[j].reasons = << <<"score_delta_too_small">> >>

\* the reports runImprovementLoop has returned: the one of a single call,
\* the rounds of a long run
Reports ==
  IF imp.pc \in {"idle", "args"} THEN {}
  ELSE {imp.rounds[i] : i \in 1..Len(imp.rounds)}
         \cup (IF imp.report = None THEN {} ELSE {imp.report[1]})

AcceptedRows(report) ==
  {i \in 1..Len(report.results) : report.results[i].accepted}

\* C25: bestAccepted is present exactly when some result is accepted, and
\* it is then an accepted result of the round whose score is at least the
\* score of every accepted result of the round.
C25_BestAccepted ==
  \A report \in Reports :
    /\ report.bestAccepted # None <=> AcceptedRows(report) # {}
    /\ report.bestAccepted # None =>
         /\ \E i \in AcceptedRows(report) : report.results[i] = report.bestAccepted[1]
         /\ \A i \in AcceptedRows(report) :
              report.bestAccepted[1].score[1] >= report.results[i].score[1]

\* a report whose best result is followed by an accepted result of lower score
C25_Witness ==
  \E report \in Reports :
    \E i, j \in AcceptedRows(report) :
      /\ i < j
      /\ report.results[i].score[1] > report.results[j].score[1]
      /\ report.bestAccepted = Some(report.results[i])

\* the accepted results recorded so far in the round
AcceptedSoFar == {i \in 1..Len(imp.results) : imp.results[i].accepted}

LastAccepted ==
  imp.results[CHOOSE i \in AcceptedSoFar : \A j \in AcceptedSoFar : j <= i]

\* the baseline and the score the next candidate is to be compared with
RefBaseline ==
  IF imp.updateBaselineOnAccept /\ AcceptedSoFar # {}
    THEN LastAccepted.snapshot[1] ELSE imp.argBaseline
RefScore ==
  IF imp.updateBaselineOnAccept /\ AcceptedSoFar # {}
    THEN LastAccepted.score[1] ELSE imp.baseScore

\* C26: with updateBaselineOnAccept the working baseline and its score
\* become the snapshot and the score of each accepted candidate, and every
\* later candidate's scoreDelta and baseline-relative constraints are
\* computed against the most recently accepted candidate; without it every
\* candidate is compared with the original baseline.
C26_BaselineFollowsAccept ==
  [][Judged =>
       /\ imp.currentBaseline = RefBaseline
       /\ imp.currentBaselineScore = RefScore
       /\ NewRow.scoreDelta # None =>
            NewRow.scoreDelta[1] = NewRow.score[1] - RefScore
       /\ NewRow.accepted <=>
            Acceptable(NewRow, imp.policy, RefBaseline, RefScore)
       /\ (NewRow.accepted /\ imp.updateBaselineOnAccept) =>
            /\ imp'.currentBaseline = NewRow.snapshot[1]
            /\ imp'.currentBaselineScore = NewRow.score[1]
       /\ ~(NewRow.accepted /\ imp.updateBaselineOnAccept) =>
            /\ imp'.currentBaseline = imp.currentBaseline
            /\ imp'.currentBaselineScore = imp.currentBaselineScore]_vars

\* after an acceptance moved the baseline, a candidate the original baseline
\* would have let pass fails a delta constraint and the score delta
C26_Witness ==
  /\ imp.pc = "evaluate"
  /\ imp.updateBaselineOnAccept
  /\ Len(imp.results) = 2
  /\ imp.results[1].accepted
  /\ imp.results[2].reasons =
       << <<"constraint_failed", "b">>, <<"score_delta_too_small">> >>
  /\ imp.results[2].scoreDelta = Some(0 - 1)
  /\ Acceptable(imp.results[2], imp.policy, imp.argBaseline, imp.baseScore)

\* the row of a candidate whose evaluation threw
ErrorRow(i) ==
  [candidate |-> i, accepted |-> FALSE, reasons |-> << <<"evaluation_error">> >>,
   snapshot |-> None, score |-> None, scoreDelta |-> None, error |-> Some("message")]

\* C27: a failure of the evaluator stays with its candidate: the candidate
\* is recorded as not accepted with the single reason evaluation_error and
\* the error, the working baseline is unchanged, the loop goes on with the
\* next candidate, and a report holds one result per candidate in input
\* order.
C27_EvaluationErrorLocal ==
  [][/\ (imp.pc = "evaluate" /\ Len(imp.results) < imp.candidates) =>
          /\ imp'.pc = "evaluate"
          /\ imp'.candidates = imp.candidates
          /\ SubSeq(imp'.results, 1, Len(imp.results)) = imp.results
          /\ Len(imp'.results) = Len(imp.results) + 1
          /\ NewRow.error # None =>
               /\ NewRow = ErrorRow(Len(imp.results) + 1)
               /\ imp'.currentBaseline = imp.currentBaseline
               /\ imp'.currentBaselineScore = imp.currentBaselineScore
     /\ \A report \in Reports' \ Reports :
          /\ Len(report.results) = imp.candidates
          /\ \A i \in 1..Len(report.results) : report.results[i].candidate = i]_vars

\* a report of three candidates: accepted, failed evaluation, accepted
\* against the baseline the first one left
C27_Witness ==
  /\ imp.pc = "returned"
  /\ imp.updateBaselineOnAccept
  /\ imp.report # None
  /\ Len(imp.report[1].results) = 3
  /\ imp.report[1].results[1].accepted
  /\ imp.report[1].results[2] = ErrorRow(2)
  /\ imp.report[1].results[3].accepted
  /\ imp.report[1].results[3].scoreDelta = Some(0)

\* the constraints of the policy that divide by a baseline metric that is 0
\* (or absent, which the code reads as 0)
ZeroBaseConstraints ==
  {i \in 1..Len(imp.policy.constraints) :
     /\ imp.policy.constraints[i].source \in {Some("ratio"), Some("delta_ratio")}
     /\ \/ imp.currentBaseline.metrics[imp.policy.constraints[i].key].k # "num"
        \/ imp.currentBaseline.metrics[imp.policy.constraints[i].key].n = 0}

HasReason(row, reason) == \E i \in 1..Len(row.reasons) : row.reasons[i] = reason

\* what the claim says of the candidate, for the constraint c
SourceRefused(row, c) ==
  /\ HasReason(row, <<"invalid_constraint_source", c.key>>)
  /\ row.reasons[1] = <<"invalid_snapshot">>
  /\ row.score = None
  /\ row.scoreDelta = None
  /\ ~row.accepted

\* C28, as stated: for a constraint with source ratio or delta_ratio whose
\* baseline metric is 0, the candidate gets the reason
\* invalid_constraint_source:<key>, the snapshot is marked invalid_snapshot,
\* no score is computed and the candidate is never accepted (read of the
\* candidates whose evaluation returned a snapshot).
C28_ZeroBaselineAlways ==
  [][(Judged /\ NewRow.snapshot # None) =>
       \A i \in ZeroBaseConstraints :
         SourceRefused(NewRow, imp.policy.constraints[i])]_vars

\* C28, amended: the same, for a candidate whose snapshot holds a finite
\* value of the constraint's metric; a candidate whose evaluation threw or
\* whose snapshot holds no finite value of it is refused too, without a score, but
\* with evaluation_error or metric_missing:<key> in place of
\* invalid_constraint_source:<key>.
C28_ZeroBaseline ==
  [][Judged =>
       \A i \in ZeroBaseConstraints :
         LET c == imp.policy.constraints[i]
         IN /\ ~NewRow.accepted
            /\ NewRow.score = None
            /\ IF NewRow.snapshot # None /\ NewRow.snapshot[1].metrics[c.key].k = "num"
                 THEN SourceRefused(NewRow, c)
               ELSE /\ ~HasReason(NewRow, <<"invalid_constraint_source", c.key>>)
                    /\ \/ NewRow.reasons = << <<"evaluation_error">> >>
                       \/ HasReason(NewRow, <<"metric_missing", c.key>>)]_vars

\* a candidate with every metric finite and the best score, refused because
\* the ratio has no baseline to divide by
C28_Witness ==
  /\ imp.pc = "evaluate"
  /\ Len(imp.results) = 1
  /\ imp.currentBaseline.metrics.b = Num(0, 1)
  /\ imp.results[1].snapshot = Some(Snapshot(Num(1, 1), Num(1, 1), <<>>))
  /\ imp.results[1].reasons =
       << <<"invalid_snapshot">>, <<"invalid_constraint_source", "b">> >>
  /\ imp.results[1].score = None

\* the snapshots the call has scored, each with the score it was given:
\* the baselines and every result that carries a score
Scored ==
  IF imp.pc \in {"idle", "args", "threw"} THEN {}
  ELSE (IF imp.long THEN {<<imp.baseline, imp.baselineScore>>} ELSE {})
       \cup (IF imp.pc = "generate" \/ (imp.long /\ imp.rounds = <<>> /\ imp.pc = "returned")
               THEN {}
             ELSE {<<imp.argBaseline, imp.baseScore>>,
                   <<imp.currentBaseline, imp.currentBaselineScore>>})
       \cup {<<imp.results[i].snapshot[1], imp.results[i].score[1]>> :
               i \in {j \in 1..Len(imp.results) : imp.results[j].score # None}}

\* every objective metric of the baseline is finite
BaselineScorable ==
  \A i \in 1..Len(imp.policy.objectives) :
    imp.baseline.metrics[imp.policy.objectives[i].key].k = "num"

\* no objective has a weight below least
WeightsFrom(least) ==
  \A i \in 1..Len(imp.policy.objectives) :
    imp.policy.objectives[i].weight = None \/ imp.policy.objectives[i].weight[1] >= least

\* C29, as stated: scoreSnapshot is the linear sum over the objectives of
\* (+value for maximize, -value for minimize) * weight, the weight 1 when
\* none is given and any weight >= 0 allowed.
C29_AnyWeightFromZero ==
  (imp.pc \notin {"idle", "args"} /\ imp.policy.objectives # <<>>
     /\ BaselineScorable /\ WeightsFrom(0)) =>
    /\ imp.pc # "threw"
    /\ \A sc \in Scored : sc[2] = LinearScore(sc[1], imp.policy)

\* C29, amended: the same with any weight > 0 allowed, a weight <= 0 making
\* scoreSnapshot throw invalid_weight:<key>; for a single minimize objective
\* the score is -metric * weight.
C29_LinearScore ==
  /\ (imp.pc \notin {"idle", "args"} /\ imp.policy.objectives # <<>>
        /\ BaselineScorable /\ WeightsFrom(1)) =>
       /\ imp.pc # "threw"
       /\ \A sc \in Scored :
            /\ sc[2] = LinearScore(sc[1], imp.policy)
            /\ (Len(imp.policy.objectives) = 1
                  /\ imp.policy.objectives[1].direction = "minimize") =>
                 sc[2] = (0 - sc[1].metrics[imp.policy.objectives[1].key].n)
                           * Or(imp.policy.objectives[1].weight, 1)
  /\ (imp.pc \notin {"idle", "args"} /\ imp.policy.objectives # <<>>
        /\ BaselineScorable /\ ~WeightsFrom(1)) =>
       /\ imp.pc = "threw"
       /\ imp.error[1] = "invalid_weight"

\* the baseline {a: 1, b: 1} scored -1 and a candidate {a: 0, b: 2} scored 2
\* under minimize a with weight 2 and maximize b
C29_Witness ==
  /\ imp.pc = "evaluate"
  /\ Len(imp.policy.objectives) = 2
  /\ imp.policy.objectives[1].weight = Some(2)
  /\ imp.baseScore = 0 - 1
  /\ \E i \in 1..Len(imp.results) :
       /\ imp.results[i].snapshot[1].metrics.a = Num(0, 1)
       /\ imp.results[i].score = Some(2)

\* a long run is under way or has returned
LongRun == imp.pc \in {"generate", "evaluate", "returned"} /\ imp.long

\* C30: when runLongImprovementLoop returns and every round it ran has a
\* bestAccepted, finalBaseline is the snapshot of the last round's
\* bestAccepted; with stopWhenNoAccept the first round without an accepted
\* candidate ends the loop, no later round is run.
C30_LongRun ==
  LongRun =>
    /\ (/\ imp.pc = "returned"
        /\ imp.rounds # <<>>
        /\ \A i \in 1..Len(imp.rounds) : imp.rounds[i].bestAccepted # None) =>
         /\ imp.baseline = imp.rounds[Len(imp.rounds)].bestAccepted[1].snapshot[1]
         /\ imp.baselineScore = imp.rounds[Len(imp.rounds)].bestAccepted[1].score[1]
    /\ imp.stopWhenNoAccept =>
         \A i \in 1..Len(imp.rounds) :
           AcceptedRows(imp.rounds[i]) = {} =>
             /\ i = Len(imp.rounds)
             /\ imp.pc = "returned"

\* a run of at most three rounds that returned after its second round, which
\* accepted nothing, with the first round's best as the final baseline
C30_Witness ==
  /\ LongRun
  /\ imp.pc = "returned"
  /\ imp.stopWhenNoAccept
  /\ imp.maxIterations = 3
  /\ Len(imp.rounds) = 2
  /\ imp.rounds[1].bestAccepted # None
  /\ AcceptedRows(imp.rounds[2]) = {}
  /\ imp.baseline = imp.rounds[1].bestAccepted[1].snapshot[1]
  /\ imp.baseline # imp.rounds[1].baseline

\* a run whose two rounds both accepted returned the second round's best
C30_EveryRoundAccepts ==
  /\ LongRun
  /\ imp.pc = "returned"
  /\ Len(imp.rounds) = 2
  /\ \A i \in 1..2 : imp.rounds[i].bestAccepted # None
  /\ imp.baseline # imp.rounds[1].bestAccepted[1].snapshot[1]

\* the call has ended
LongRunEnded == imp.pc \in {"returned", "threw"}

\* what is left of a long run: the iterations the loop may still begin,
\* whether the iteration is still to ask for its candidates, and the
\* candidates of the round still to be evaluated
Remaining ==
  CASE imp.pc = "args" -> <<Max(0, imp.maxIterations) + 1, 0, 0>>
    [] imp.pc = "generate" -> <<Max(0, imp.maxIterations) - imp.iteration, 1, 0>>
    [] imp.pc = "evaluate" ->
         <<Max(0, imp.maxIterations) - imp.iteration, 0,
           1 + imp.candidates - Len(imp.results)>>
    [] OTHER -> <<0, 0, 0>>

\* a comes before b in the lexicographic order
Before(a, b) ==
  \/ a[1] < b[1]
  \/ a[1] = b[1] /\ a[2] < b[2]
  \/ a[1] = b[1] /\ a[2] = b[2] /\ a[3] < b[3]

\* C31: runLongImprovementLoop always terminates (every step its awaited
\* promises let it take brings it nearer to its return: what remains of the
\* run, never negative, decreases), with at most max(0, maxIterations)
\* rounds, and an iteration whose generateCandidates returns no candidate
\* stops the loop without recording a round for it.
C31_LongRunTerminates ==
  /\ [](imp.pc \notin {"idle", "args"} /\ imp.long =>
          /\ Len(imp.rounds) <= Max(0, imp.maxIterations)
          /\ \A k \in 1..3 : Remaining[k] >= 0)
  /\ [][imp.long =>
          /\ ~LongRunEnded
          /\ Before(Remaining', Remaining)
          /\ (imp.pc = "generate" /\ imp'.pc # "evaluate") =>
               /\ imp'.pc = "returned"
               /\ imp'.rounds = imp.rounds
               /\ imp'.evals = imp.evals]_vars

\* a run allowed three rounds that ended after one round that accepted a
\* candidate, because the second generateCandidates returned nothing
C31_Witness ==
  /\ imp.pc = "returned"
  /\ imp.long
  /\ imp.maxIterations = 3
  /\ ~imp.stopWhenNoAccept
  /\ Len(imp.rounds) = 1
  /\ imp.rounds[1].bestAccepted # None
  /\ imp.evals = 1

(***************************************************************************)
(* The planner.                                                            *)
(***************************************************************************)
\* the answer asks for a long run and names at least one objective that is
\* a record with a key, a direction and a symbol
AsksLongRun(text) ==
  /\ text.k = "object"
  /\ text.mode = Some("long_run")
  /\ text.longRun.isRecord
  /\ text.longRun.isArray
  /\ \E i \in 1..Len(text.longRun.objectives) :
       LET row == text.longRun.objectives[i]
       IN /\ row.isRecord
          /\ row.key # None /\ row.key[1] \notin Blank
          /\ row.direction \in {Some("minimize"), Some("maximize")}
          /\ row.symbol # None /\ row.symbol[1] \notin Blank

\* the answer is an object with a task of its own
OwnTask(text) == text.k = "object" /\ text.task # None /\ text.task[1] \notin Blank

\* C32: createRLMPlan never fails on bad output of the language model and
\* never guesses a long_run plan: the plan has mode long_run only when the
\* output has mode long_run and a longRun spec with at least one valid
\* objective, and then it carries longRun; every other output, unparseable
\* ones included, yields a single plan; and the task falls back to the user
\* input: it is the user input unless the output is an object with a
\* non-blank task of its own.
C32_PlanFallback ==
  \* a call that fails has had no output to read: llm.complete failed
  /\ plan.pc = "threw" => "text" \notin DOMAIN plan
  /\ plan.pc = "returned" =>
       /\ plan.out.mode \in {"single", "long_run"}
       /\ plan.out.mode = "long_run" <=> AsksLongRun(plan.text)
       /\ plan.out.mode = "long_run" <=> plan.out.longRun # None
       /\ plan.out.longRun # None => Len(plan.out.longRun[1].objectives) > 0
       /\ plan.out.task = IF OwnTask(plan.text) THEN plan.text.task[1] ELSE plan.input

\* the answer asked for a long run with only a row that names no symbol:
\* a single plan for the user's input
C32_Witness ==
  /\ plan.pc = "returned"
  /\ plan.text.mode = Some("long_run")
  /\ plan.text.task = None
  /\ Len(plan.text.longRun.objectives) = 1
  /\ plan.text.longRun.objectives[1].isRecord
  /\ plan.out.mode = "single"
  /\ plan.out.task = "U"
  /\ plan.out.longRun = None

(***************************************************************************)
(* The long-run program.                                                   *)
(***************************************************************************)
\* generateCandidates answers in this step
Offers == imp.pc = "generate" /\ imp' # imp

\* the first n entries of the pool whose id is in no row of an earlier round
FirstUntried(n) ==
  LET untried == SelectSeq(imp.entries,
                           LAMBDA id : id \notin triedIds(imp.offers, imp.rounds))
  IN SubSeq(untried, 1, Min(Max(n, 0), Len(untried)))

\* C33: selectUntriedCandidates returns, in pool order, the first
\* candidateLimit pool entries whose id occurs in no result of an earlier
\* round, and the empty list when candidateLimit <= 0.
C33_FirstUntried ==
  [][Offers => imp'.offers[Len(imp'.offers)] = FirstUntried(imp.candidateLimit)]_vars

\* C39: in runLongRunProgram the candidates offered in a round are pool
\* entries whose id is in no result of an earlier round, so that no id is
\* evaluated in more than one round; every round offers at most
\* candidateLimit candidates; and the loop stops once the pool is exhausted.
C39_OffersWithinLimit ==
  [][Offers =>
       LET out == imp'.offers[Len(imp'.offers)]
           tried == triedIds(imp.offers, imp.rounds)
       IN /\ \A i \in 1..Len(out) :
               /\ \E j \in 1..Len(imp.entries) : imp.entries[j] = out[i]
               /\ out[i] \notin tried
          /\ Len(out) <= imp.candidateLimit
          /\ (\A j \in 1..Len(imp.entries) : imp.entries[j] \in tried)
               => imp'.pc = "returned"]_vars

(***************************************************************************)
(* The metric symbol.                                                      *)
(***************************************************************************)
\* a call for the key starts in this step
CallsFor(key) ==
  /\ sym'.calls = sym.calls + 1
  /\ \/ sym'.flight = Append(sym.flight, key)
     \/ sym'.flight = sym.flight /\ sym'.last.key = key

\* C34 as stated: with a cache, evaluateCandidate is invoked at most once
\* per cache key over any sequence of calls, here even over the sequences
\* in which every call returns before the next one starts.
C34_EvaluatedOnce ==
  sym.pc = "ready" /\ sym.hasCache /\ ~sym.overlapped
    => \A key \in CandidateKeys : sym.invoked[key] <= 1

\* C34, amended: with a cache, a call invokes evaluateCandidate exactly when
\* no evaluation for its key has returned metrics before the call; once one
\* has, the cache keeps metrics for the key and every later call for it is
\* answered from them without an invocation.
C34_EvaluatedUntilCached ==
  [][sym.pc = "ready" /\ sym.hasCache =>
       \A key \in CandidateKeys :
         /\ sym.cache[key] # None => sym'.cache[key] # None
         /\ CallsFor(key) /\ sym.cache[key] # None =>
              /\ sym'.invoked = sym.invoked
              /\ sym'.flight = sym.flight
              /\ sym'.last = [key |-> key, from |-> "cache", value |-> sym.cache[key]]
         /\ CallsFor(key) /\ sym.cache[key] = None =>
              /\ sym'.invoked[key] = sym.invoked[key] + 1
              /\ sym'.last = sym.last]_vars

\* an evaluation threw, the next one returned, and a third call was
\* answered from the cache: two invocations for one key, no overlap
C34_Witness ==
  /\ sym.pc = "ready"
  /\ sym.hasCache
  /\ ~sym.overlapped
  /\ sym.calls = 3
  /\ sym.invoked["x"] = 2
  /\ sym.cache["x"] = Some(2)
  /\ sym.last = [key |-> "x", from |-> "cache", value |-> Some(2)]

ChildFails ==
  /\ Len(stack) > 1
  /\ Len(stack') = Len(stack) - 1
  /\ top.final.t = "undef"

\* the cache keys of the items of a sub_map whose sub-calls have returned
CompletedKeys(env) ==
  { NextKey([env EXCEPT !.sub.i = j - 1]) : j \in 1..env.sub.i }

\* C36: when a child run throws, the sub-call writes no cache entry and
\* emits no sub_call event, and the parent's subCallsUsed stays as the
\* sub-call left it, incremented; the sub_map fails with scratch[out]
\* unwritten, while the results of the items already completed stay in the
\* cache.
C36_ChildFailure ==
  /\ [](\A i \in Frames : stack[i].pc = "await_child" => stack[i].budget.subCallsUsed > 0)
  /\ [][ChildFails =>
          LET parent == stack[Len(stack) - 1]
              after == stack'[Len(stack')]
          IN /\ cache' = cache
             /\ after.trace = parent.trace
             /\ after.budget = parent.budget
             /\ after.scratch = parent.scratch
             /\ after.pc = "exec_done"
             /\ after.res.err # ""
             /\ \A key \in CompletedKeys(parent) : CacheHas(key)]_vars

\* a sub_map failed at its second item: the first item's result is cached,
\* both sub-calls stay charged, and scratch has no mapped
C36_Witness ==
  /\ top.pc = "exec_done"
  /\ top.dsl.op = "sub_map"
  /\ top.res.err = "BudgetExceeded"
  /\ top.sub.i = 1
  /\ CompletedKeys(top) # {}
  /\ \A key \in CompletedKeys(top) : CacheHas(key)
  /\ top.budget.subCallsUsed = 2
  /\ top.dsl.out \notin DOMAIN top.scratch

(***************************************************************************)
(* The rounds of the long improvement loop.                                *)
(***************************************************************************)
\* the step ends a round of the long loop
RoundEnds == imp.long /\ Len(imp'.rounds) = Len(imp.rounds) + 1

\* C37: within a round of the long loop every candidate is judged against
\* the baseline the round began with; acceptedHistory receives every
\* accepted result of the round, in input order, not only bestAccepted; a
\* round without an accepted candidate leaves baseline, baselineScore and
\* state as they were.
C37_RoundAgainstStartBaseline ==
  /\ [](imp.long /\ imp.pc = "evaluate" =>
          /\ imp.currentBaseline = imp.baseline
          /\ imp.currentBaselineScore = imp.baselineScore
          /\ imp.argBaseline = imp.baseline)
  /\ [][imp.long /\ Judged =>
          /\ NewRow.scoreDelta # None =>
               NewRow.scoreDelta[1] = NewRow.score[1] - imp.baselineScore
          /\ NewRow.accepted <=>
               Acceptable(NewRow, imp.policy, imp.baseline, imp.baselineScore)
          /\ imp'.baseline = imp.baseline
          /\ imp'.baselineScore = imp.baselineScore
          /\ imp'.state = imp.state]_vars
  /\ [][RoundEnds =>
          /\ imp'.rounds[Len(imp'.rounds)].baseline = imp.baseline
          /\ imp'.acceptedHistory =
               imp.acceptedHistory \o SelectSeq(imp.results, LAMBDA row : row.accepted)
          /\ AcceptedSoFar = {} =>
               /\ imp'.baseline = imp.baseline
               /\ imp'.baselineScore = imp.baselineScore
               /\ imp'.state = imp.state]_vars

\* a first round accepted two candidates, the second of them worse than the
\* first but better than the baseline, and a second round accepted none
C37_Witness ==
  /\ imp.pc = "returned"
  /\ imp.long
  /\ Len(imp.rounds) = 2
  /\ Len(imp.rounds[1].results) = 2
  /\ imp.rounds[1].results[1].accepted
  /\ imp.rounds[1].results[2].accepted
  /\ imp.rounds[1].results[2].score[1] < imp.rounds[1].results[1].score[1]
  /\ Len(imp.acceptedHistory) = 2
  /\ AcceptedRows(imp.rounds[2]) = {}
  /\ imp.baseline = imp.rounds[1].bestAccepted[1].snapshot[1]
  /\ Len(imp.state) = 1

\* C38: in runLongImprovementLoop baselineScore is scoreSnapshot(baseline,
\* policy) at every iteration boundary, and with a minScoreDelta that is not
\* negative it never decreases from one iteration to the next, so that the
\* final baselineScore is at least the score of the initial baseline.
C38_BaselineScoreMonotone ==
  /\ [](LongRun =>
          /\ scoreSnapshot(imp.baseline, imp.policy) =
               [threw |-> <<>>, score |-> imp.baselineScore]
          /\ (Or(imp.policy.minScoreDelta, 0) >= 0 /\ imp.rounds # <<>>) =>
               /\ imp.baselineScore >= imp.rounds[1].baselineScore
               /\ \A i \in 1..(Len(imp.rounds) - 1) :
                    imp.rounds[i + 1].baselineScore >= imp.rounds[i].baselineScore)
  /\ [][(LongRun /\ Or(imp.policy.minScoreDelta, 0) >= 0) =>
          imp'.baselineScore >= imp.baselineScore]_vars

\* two rounds each raised the score of the baseline
C38_Witness ==
  /\ imp.pc = "returned"
  /\ imp.long
  /\ Len(imp.rounds) = 2
  /\ imp.rounds[2].baselineScore > imp.rounds[1].baselineScore
  /\ imp.baselineScore > imp.rounds[2].baselineScore
  /\ imp.baselineScore = LinearScore(imp.baseline, imp.policy)

(***************************************************************************)
(* The header of a CSV document.                                           *)
(***************************************************************************)
\* the cell is written as a number
Numeric(cell) == cell \in {<<"1">>, <<"-", "1">>}

\* the cell is a name: a letter or "_", then letters, digits, "_" or "-"
NameLike(cell) == cell \in {<<"a">>, <<"a", "1">>, <<"_">>}

\* some column is not numeric in row 0 and numeric in row 1
NumericBelow(rows) ==
  /\ Len(rows) >= 2
  /\ \E c \in 1..Min(Len(rows[1]), Len(rows[2])) :
       ~Numeric(rows[1][c]) /\ Numeric(rows[2][c])

\* row 0 was taken as the header
TookHeader ==
  /\ csv.rows # <<>>
  /\ csv.doc.headers = csv.rows[1]
  /\ csv.doc.rows = Tail(csv.rows)

\* the headers are col0..colN and row 0 is a data row
SyntheticHeaders ==
  /\ csv.doc.rows = csv.rows
  /\ csv.doc.headers =
       IF csv.rows = <<>> THEN <<>>
       ELSE [c \in 1..Len(csv.rows[1]) |->
               IF c = 1 THEN <<"c", "o", "l", "0">> ELSE <<"c", "o", "l", "1">>]

\* C40 as stated: row 0 is the header only if the first row is all
\* non-numeric and some column is non-numeric in row 0 while numeric in row
\* 1; in every other case the headers are col0..colN and row 0 stays a
\* data row.
C40_HeaderOnlyWithBoth ==
  csv.pc = "parsed" =>
    \/ SyntheticHeaders
    \/ /\ NumericBelow(csv.rows)
       /\ \A c \in 1..Len(csv.rows[1]) : ~Numeric(csv.rows[1][c])

\* C40, amended: row 0 is the header exactly when there is a second row and
\* either some column is non-numeric in row 0 while numeric in row 1, or
\* every cell of row 0 is a name; in every other case the headers are
\* col0..colN and row 0 stays a data row.
C40_HeaderByEitherHint ==
  csv.pc = "parsed" =>
    IF \/ NumericBelow(csv.rows)
       \/ Len(csv.rows) >= 2 /\ \A c \in 1..Len(csv.rows[1]) : NameLike(csv.rows[1][c])
    THEN TookHeader
    ELSE SyntheticHeaders /\ ~TookHeader

\* names over names, no number anywhere: row 0 is the header
C40_Witness ==
  /\ csv.pc = "parsed"
  /\ csv.rows = << <<<<"a">>, <<"_">>>>, <<<<"a", "1">>, <<"$">>>> >>
  /\ csv.doc.headers = <<<<"a">>, <<"_">>>>
  /\ csv.doc.rows = << <<<<"a", "1">>, <<"$">>>> >>

====
